---- MODULE Spec2Model ----
(***************************************************************************)
(* A model of the youtube-crawler-mcp transcript pipeline                  *)
(* (src/src/transcript_extractor.py) and of the tool handlers that drive   *)
(* it (src/src/fastmcp_server.py, src/src/server.py).                      *)
(*                                                                         *)
(* Python strings that the code computes on (video ids, language codes,    *)
(* file extensions, paths, transcript text) are tuples of one-character    *)
(* strings, so that split, strip and path building are computed as the     *)
(* code computes them.  Tags that are only compared (the source of a       *)
(* transcript, the position of a call) are TLA+ strings.                   *)
(***************************************************************************)
EXTENDS Integers, Sequences, FiniteSets, TLC

VARIABLES
    openai_client,  \* TranscriptExtractor.openai_client is set (TRUE) or None (FALSE)
    fs,             \* the temp directory: path -> [size, doc] of every file in it
    ppc,            \* position of the get_transcript invocation
    p_vid,          \* get_transcript: video_id
    p_meta,         \* get_transcript: video_metadata
    p_prefer,       \* get_transcript: prefer_subtitles
    p_sel,          \* _get_youtube_subtitles: the selected track and its path
    p_caption,      \* what _get_youtube_subtitles returned ("pending" before)
    p_lang,         \* _get_whisper_transcript: language
    p_audio,        \* _get_whisper_transcript: audio_path
    p_result,       \* what get_transcript returned
    p_trace,        \* the external calls this invocation made, in order
    p_created,      \* the audio files this invocation's calls created
    ncalls,         \* direct get_transcript invocations made so far
    config_kind,    \* the configuration: "ok", "missing_keys", "unsupported_provider"
    provider,       \* the summarization provider: "up", or "errors" (some calls fail)
    g_clients,      \* fastmcp_server's three global clients: set (TRUE) or None
    hpc,            \* position of the tool handler
    h_server,       \* the server whose handler runs: "fastmcp" or "server"
    h_tool,         \* the tool called
    h_args,         \* its arguments
    h_channel,      \* the handler's channel_id
    h_videos,       \* the handler's videos, as listed
    h_i,            \* index in h_videos of the video being processed
    h_summaries,    \* the handler's summaries
    h_response,     \* what the handler returned, or the exception that left it
    h_log,          \* the collaborator calls the handler made, in order
    nlisted,        \* videos listed so far, over all tool calls
    fn_in,          \* the argument of a function checked on its own
    fn_out,         \* its result (Unset before the function is applied)
    threads         \* concurrent invocations: one record per invocation

pvars == <<ppc, p_vid, p_meta, p_prefer, p_sel, p_caption, p_lang, p_audio,
           p_result, p_trace, p_created>>
hvars == <<config_kind, provider, g_clients, hpc, h_server, h_tool, h_args, h_channel,
           h_videos, h_i, h_summaries, h_response, h_log, nlisted>>
fvars == <<fn_in, fn_out, threads>>
\* everything outside the extractor
outer == <<ncalls, hvars, fvars>>
vars == <<openai_client, fs, pvars, outer>>

-----------------------------------------------------------------------------
(* Bounds of the model *)

\* direct invocations of get_transcript in one behaviour
MaxCalls == 1
\* caption languages one enumeration lists per track set
MaxTracks == 2

-----------------------------------------------------------------------------
(* Values *)

\* Python None where a string is expected
NoneStr == <<"<None>">>
\* Python None where a VideoTranscript is expected
NoneT == [absent |-> TRUE]
\* no track selected
NoSel == [absent |-> TRUE]

EN == <<"e", "n">>
FR == <<"f", "r">>
DE == <<"d", "e">>
JSON3 == <<"j", "s", "o", "n", "3">>
VTT == <<"v", "t", "t">>
SRT == <<"s", "r", "t">>
TTML == <<"t", "t", "m", "l">>
MP3 == <<".", "m", "p", "3">>
COMPRESSED_MP3 == <<"_", "c", "o", "m", "p", "r", "e", "s", "s", "e", "d">> \o MP3
UNKNOWN == <<"u", "n", "k", "n", "o", "w", "n">>

VideoIds == {<<"v", "1">>, <<"v", "2">>}
CaptionLangs == {EN, FR, DE}

(* A character is a string of one character; a character beyond U+00FF,
   which a string of the module cannot hold, is the string "U+" and its code
   point in four or five hexadecimal digits ("U+3000"). *)

(* str.isspace(): the whitespace str.strip() removes.  Space, \n, \t, \r,
   U+000B, U+000C, U+001C..U+001F, U+0085, U+00A0, and the Unicode spaces
   beyond U+00FF. *)
Whitespace ==
    {" ", "\n", "\t", "\r", "", "", "", "", "", "", "", " "} \cup
    {"U+1680", "U+2000", "U+2001", "U+2002", "U+2003", "U+2004", "U+2005",
     "U+2006", "U+2007", "U+2008", "U+2009", "U+200A", "U+2028", "U+2029",
     "U+202F", "U+205F", "U+3000"}

\* str.strip(): leading and trailing whitespace removed
IsSpace(c) == c \in Whitespace
RECURSIVE LStrip(_)
LStrip(s) == IF s # <<>> /\ IsSpace(Head(s)) THEN LStrip(Tail(s)) ELSE s
RECURSIVE RStrip(_)
RStrip(s) ==
    IF s # <<>> /\ IsSpace(s[Len(s)]) THEN RStrip(SubSeq(s, 1, Len(s) - 1)) ELSE s
Strip(s) == RStrip(LStrip(s))

\* " ".join(parts)
RECURSIVE JoinSpace(_)
JoinSpace(parts) ==
    IF parts = <<>> THEN <<>>
    ELSE IF Len(parts) = 1 THEN parts[1]
    ELSE parts[1] \o <<" ">> \o JoinSpace(Tail(parts))

\* the prefix before the last sep instead of the first
SplitFirst_last(s, sep) ==
    IF \E i \in 1..Len(s) : s[i] = sep
    THEN LET k == CHOOSE i \in 1..Len(s) :
                      s[i] = sep /\ \A j \in (i + 1)..Len(s) : s[j] # sep
         IN SubSeq(s, 1, k - 1)
    ELSE s

\* s.split(sep)[0]: the prefix before the first sep, all of s when there is none
SplitFirst(s, sep) ==
    IF \E i \in 1..Len(s) : s[i] = sep
    THEN LET k == CHOOSE i \in 1..Len(s) :
                      s[i] = sep /\ \A j \in 1..(i - 1) : s[j] # sep
         IN SubSeq(s, 1, k - 1)
    ELSE s

-----------------------------------------------------------------------------
(* Language normalizer: TranscriptExtractor._convert_to_whisper_lang *)

Code(l, r) == l \o <<"-">> \o r
ZH_CN == Code(<<"z", "h">>, <<"C", "N">>)
PT_PT == Code(<<"p", "t">>, <<"P", "T">>)

(* A metadata language that is no string: a number that is true (7, 7.5,
   True) and one that is false (0, 0.0, False); and the AttributeError that
   None.get and int.split raise. *)
IntLang == <<"<7>">>
ZeroLang == <<"<0>">>
AttributeError == <<"<AttributeError>">>

mapping ==
    (ZH_CN :> <<"z", "h">>)
    @@ (Code(<<"z", "h">>, <<"T", "W">>) :> <<"z", "h">>)
    @@ (Code(<<"z", "h">>, <<"H", "K">>) :> <<"z", "h">>)
    @@ (Code(<<"e", "n">>, <<"U", "S">>) :> <<"e", "n">>)
    @@ (Code(<<"e", "n">>, <<"G", "B">>) :> <<"e", "n">>)
    @@ (Code(<<"j", "a">>, <<"J", "P">>) :> <<"j", "a">>)
    @@ (Code(<<"k", "o">>, <<"K", "R">>) :> <<"k", "o">>)
    @@ (Code(<<"e", "s">>, <<"E", "S">>) :> <<"e", "s">>)
    @@ (Code(<<"f", "r">>, <<"F", "R">>) :> <<"f", "r">>)
    @@ (Code(<<"d", "e">>, <<"D", "E">>) :> <<"d", "e">>)
    @@ (Code(<<"i", "t">>, <<"I", "T">>) :> <<"i", "t">>)
    @@ (Code(<<"p", "t">>, <<"B", "R">>) :> <<"p", "t">>)
    @@ (Code(<<"r", "u">>, <<"R", "U">>) :> <<"r", "u">>)
    @@ (Code(<<"a", "r">>, <<"S", "A">>) :> <<"a", "r">>)
    @@ (Code(<<"h", "i">>, <<"I", "N">>) :> <<"h", "i">>)

_convert_to_whisper_lang(youtube_lang) ==
    IF youtube_lang \in DOMAIN mapping
    THEN mapping[youtube_lang]
    ELSE IF youtube_lang = IntLang
    THEN AttributeError
    ELSE SplitFirst(youtube_lang, "-")

\* Python truthiness of an Optional[str]: None and "" are false
TruthyStr(s) == s # NoneStr /\ s # <<>>

\* truthiness of a metadata field: also the number 0 is false
TruthyField(v) == TruthyStr(v) /\ v # ZeroLang

(* video_metadata: None, or a dict the caller supplies; its "snippet" is
   missing, None (NullSnippet), or a dict whose two language fields are a
   string or None/missing (NoneStr), or whose audio language is a number. *)
MetaNone == [absent |-> TRUE]
NoSnippet == [absent |-> TRUE]
NullSnippet == [null |-> TRUE]
MetaLangs == {ZH_CN, PT_PT}
OptMetaLangs == MetaLangs \cup {NoneStr, <<>>}
Snippets ==
    {NoSnippet, NullSnippet}
    \cup [defaultAudioLanguage : OptMetaLangs, defaultLanguage : {NoneStr, EN}]
    \cup {[defaultAudioLanguage |-> IntLang, defaultLanguage |-> NoneStr]}
    \cup [defaultAudioLanguage : {ZeroLang}, defaultLanguage : {NoneStr, EN}]
Metas == {MetaNone} \cup [snippet : Snippets]

\* `if video_metadata`: None and the empty dict are false
TruthyMeta(m) == m # MetaNone /\ m # [snippet |-> NoSnippet]

\* _detect_language looking at defaultLanguage first
_detect_language_default_first(video_metadata) ==
    LET snippet == video_metadata.snippet
    IN IF snippet = NullSnippet THEN AttributeError
       ELSE IF snippet = NoSnippet THEN NoneStr
       ELSE IF TruthyField(snippet.defaultLanguage)
            THEN _convert_to_whisper_lang(snippet.defaultLanguage)
       ELSE IF TruthyField(snippet.defaultAudioLanguage)
            THEN _convert_to_whisper_lang(snippet.defaultAudioLanguage)
       ELSE NoneStr

(* Lines 54-76.  video_metadata.get("snippet", {}) is None for
   {"snippet": None}, and snippet.get raises AttributeError (line 67); a
   field that is false (None, "", 0) is passed over by `if audio_lang :=`
   and `if default_lang :=`; a number that is true raises AttributeError in
   _convert_to_whisper_lang. *)
_detect_language(video_metadata) ==
    LET snippet == video_metadata.snippet
    IN IF snippet = NullSnippet THEN AttributeError
       ELSE IF snippet = NoSnippet THEN NoneStr
       ELSE IF TruthyField(snippet.defaultAudioLanguage)
            THEN _convert_to_whisper_lang(snippet.defaultAudioLanguage)
       ELSE IF TruthyField(snippet.defaultLanguage)
            THEN _convert_to_whisper_lang(snippet.defaultLanguage)
       ELSE NoneStr

-----------------------------------------------------------------------------
(* Caption track selection: _get_youtube_subtitles, lines 141-166 *)

(* An enumeration result (yt_dlp's info): "subtitles" and
   "automatic_captions" are dicts language -> list of formats; a dict is the
   sequence of its items in insertion order, a format is its "ext". *)
FormatLists == {<<>>, <<VTT, JSON3>>, <<SRT, VTT>>, <<TTML>>}

Distinct(m) == \A i, j \in 1..Len(m) : i # j => m[i].lang # m[j].lang
TrackMaps ==
    {m \in UNION {[1..n -> [lang : CaptionLangs, formats : FormatLists]] :
                     n \in 0..MaxTracks} : Distinct(m)}
Infos == [subtitles : TrackMaps, automatic_captions : TrackMaps]

HasKey(m, l) == \E i \in 1..Len(m) : m[i].lang = l
Lookup(m, l) == m[CHOOSE i \in 1..Len(m) : m[i].lang = l].formats

\* available_subs with the two sets the other way round
available_subs_autofirst(info) ==
    IF info.automatic_captions # <<>> THEN info.automatic_captions ELSE info.subtitles

\* subtitles or automatic_captions
available_subs(info) ==
    IF info.subtitles # <<>> THEN info.subtitles ELSE info.automatic_captions

\* "en" if "en" in available_subs else list(available_subs.keys())[0]
SelectLanguage(available) ==
    IF HasKey(available, EN) THEN EN ELSE available[1].lang

\* SelectFormat taking the first format listed, whatever it is
SelectFormat_first(sub_formats) ==
    IF sub_formats = <<>> THEN NoneStr ELSE sub_formats[1]

\* next((fmt for fmt in sub_formats if fmt["ext"] == "json3"), None),
\* else sub_formats[0]; an empty list raises IndexError
SelectFormat(sub_formats) ==
    IF \E i \in 1..Len(sub_formats) : sub_formats[i] = JSON3 THEN JSON3
    ELSE IF sub_formats = <<>> THEN NoneStr
    ELSE sub_formats[1]

\* self.temp_dir / f"{video_id}_{language}.{ext}"
SubtitlePath(video_id, language, ext) ==
    video_id \o <<"_">> \o language \o <<".">> \o ext

\* the name yt_dlp derives from outtmpl = temp_dir / video_id
ToolSubtitlePath(video_id, language, ext) ==
    video_id \o <<".">> \o language \o <<".">> \o ext

\* IsManual as `subtitles is not None`: the dictionary is there even when empty
IsManual_notnone(info, language) == Len(info.subtitles) >= 0

\* lines 189-193: `language in subtitles` decides the source tag
IsManual(info, language) == HasKey(info.subtitles, language)

\* line 146: the set available_subs was taken from
TrackOrigin(info) ==
    IF info.subtitles # <<>> THEN "subtitles" ELSE "automatic_captions"

(* The selection as a whole: "none" (no tracks: return None), "raise"
   (IndexError, caught by the caption step), or the selected track. *)
SelectTrack(video_id, info) ==
    LET available == available_subs(info)
    IN IF available = <<>> THEN [kind |-> "none"]
       ELSE LET language == SelectLanguage(available)
                ext == SelectFormat(Lookup(available, language))
            IN IF ext = NoneStr THEN [kind |-> "raise"]
               ELSE [kind |-> "ok",
                     language |-> language,
                     ext |-> ext,
                     manual |-> IsManual(info, language),
                     origin |-> TrackOrigin(info),
                     path |-> SubtitlePath(video_id, language, ext)]

-----------------------------------------------------------------------------
(* Caption parser: TranscriptExtractor._parse_subtitle_file *)

(* The content of a file.  A caption file is a JSON document (json.load
   succeeds; "events" is the sequence of events the loop walks, an event the
   sequence of the "utf8" texts of its "segs", "" for a seg that has none;
   json.load succeeds but the walk raises: ShapeDoc) or plain text (json.load
   raises on it); an audio file has no content the pipeline reads. *)
AudioDoc == [kind |-> "audio"]
JsonDoc(events) == [kind |-> "json", events |-> events]
TextDoc(chars) == [kind |-> "text", chars |-> chars]

Digits == {"0", "1", "2", "3", "4", "5", "6", "7", "8", "9"}

(* The decimal digits beyond ASCII (Unicode category Nd): the patterns are
   str patterns compiled without re.ASCII, so that \d matches them too. *)
UnicodeDigits ==
    {"U+0660", "U+0661", "U+0662", "U+0663", "U+0664", "U+0665", "U+0666",
     "U+0667", "U+0668", "U+0669", "U+06F0", "U+06F1", "U+06F2", "U+06F3",
     "U+06F4", "U+06F5", "U+06F6", "U+06F7", "U+06F8", "U+06F9", "U+07C0",
     "U+07C1", "U+07C2", "U+07C3", "U+07C4", "U+07C5", "U+07C6", "U+07C7",
     "U+07C8", "U+07C9", "U+0966", "U+0967", "U+0968", "U+0969", "U+096A",
     "U+096B", "U+096C", "U+096D", "U+096E", "U+096F", "U+09E6", "U+09E7",
     "U+09E8", "U+09E9", "U+09EA", "U+09EB", "U+09EC", "U+09ED", "U+09EE",
     "U+09EF", "U+0A66", "U+0A67", "U+0A68", "U+0A69", "U+0A6A", "U+0A6B",
     "U+0A6C", "U+0A6D", "U+0A6E", "U+0A6F", "U+0AE6", "U+0AE7", "U+0AE8",
     "U+0AE9", "U+0AEA", "U+0AEB", "U+0AEC", "U+0AED", "U+0AEE", "U+0AEF",
     "U+0B66", "U+0B67", "U+0B68", "U+0B69", "U+0B6A", "U+0B6B", "U+0B6C",
     "U+0B6D", "U+0B6E", "U+0B6F", "U+0BE6", "U+0BE7", "U+0BE8", "U+0BE9",
     "U+0BEA", "U+0BEB", "U+0BEC", "U+0BED", "U+0BEE", "U+0BEF", "U+0C66",
     "U+0C67", "U+0C68", "U+0C69", "U+0C6A", "U+0C6B", "U+0C6C", "U+0C6D",
     "U+0C6E", "U+0C6F", "U+0CE6", "U+0CE7", "U+0CE8", "U+0CE9", "U+0CEA",
     "U+0CEB", "U+0CEC", "U+0CED", "U+0CEE", "U+0CEF", "U+0D66", "U+0D67",
     "U+0D68", "U+0D69", "U+0D6A", "U+0D6B", "U+0D6C", "U+0D6D", "U+0D6E",
     "U+0D6F", "U+0DE6", "U+0DE7", "U+0DE8", "U+0DE9", "U+0DEA", "U+0DEB",
     "U+0DEC", "U+0DED", "U+0DEE", "U+0DEF", "U+0E50", "U+0E51", "U+0E52",
     "U+0E53", "U+0E54", "U+0E55", "U+0E56", "U+0E57", "U+0E58", "U+0E59",
     "U+0ED0", "U+0ED1", "U+0ED2", "U+0ED3", "U+0ED4", "U+0ED5", "U+0ED6",
     "U+0ED7", "U+0ED8", "U+0ED9", "U+0F20", "U+0F21", "U+0F22", "U+0F23",
     "U+0F24", "U+0F25", "U+0F26", "U+0F27", "U+0F28", "U+0F29", "U+1040",
     "U+1041", "U+1042", "U+1043", "U+1044", "U+1045", "U+1046", "U+1047",
     "U+1048", "U+1049", "U+1090", "U+1091", "U+1092", "U+1093", "U+1094",
     "U+1095", "U+1096", "U+1097", "U+1098", "U+1099", "U+17E0", "U+17E1",
     "U+17E2", "U+17E3", "U+17E4", "U+17E5", "U+17E6", "U+17E7", "U+17E8",
     "U+17E9", "U+1810", "U+1811", "U+1812", "U+1813", "U+1814", "U+1815",
     "U+1816", "U+1817", "U+1818", "U+1819", "U+1946", "U+1947", "U+1948",
     "U+1949", "U+194A", "U+194B", "U+194C", "U+194D", "U+194E", "U+194F",
     "U+19D0", "U+19D1", "U+19D2", "U+19D3", "U+19D4", "U+19D5", "U+19D6",
     "U+19D7", "U+19D8", "U+19D9", "U+1A80", "U+1A81", "U+1A82", "U+1A83",
     "U+1A84", "U+1A85", "U+1A86", "U+1A87", "U+1A88", "U+1A89", "U+1A90",
     "U+1A91", "U+1A92", "U+1A93", "U+1A94", "U+1A95", "U+1A96", "U+1A97",
     "U+1A98", "U+1A99", "U+1B50", "U+1B51", "U+1B52", "U+1B53", "U+1B54",
     "U+1B55", "U+1B56", "U+1B57", "U+1B58", "U+1B59", "U+1BB0", "U+1BB1",
     "U+1BB2", "U+1BB3", "U+1BB4", "U+1BB5", "U+1BB6", "U+1BB7", "U+1BB8",
     "U+1BB9", "U+1C40", "U+1C41", "U+1C42", "U+1C43", "U+1C44", "U+1C45",
     "U+1C46", "U+1C47", "U+1C48", "U+1C49", "U+1C50", "U+1C51", "U+1C52",
     "U+1C53", "U+1C54", "U+1C55", "U+1C56", "U+1C57", "U+1C58", "U+1C59",
     "U+A620", "U+A621", "U+A622", "U+A623", "U+A624", "U+A625", "U+A626",
     "U+A627", "U+A628", "U+A629", "U+A8D0", "U+A8D1", "U+A8D2", "U+A8D3",
     "U+A8D4", "U+A8D5", "U+A8D6", "U+A8D7", "U+A8D8", "U+A8D9", "U+A900",
     "U+A901", "U+A902", "U+A903", "U+A904", "U+A905", "U+A906", "U+A907",
     "U+A908", "U+A909", "U+A9D0", "U+A9D1", "U+A9D2", "U+A9D3", "U+A9D4",
     "U+A9D5", "U+A9D6", "U+A9D7", "U+A9D8", "U+A9D9", "U+A9F0", "U+A9F1",
     "U+A9F2", "U+A9F3", "U+A9F4", "U+A9F5", "U+A9F6", "U+A9F7", "U+A9F8",
     "U+A9F9", "U+AA50", "U+AA51", "U+AA52", "U+AA53", "U+AA54", "U+AA55",
     "U+AA56", "U+AA57", "U+AA58", "U+AA59", "U+ABF0", "U+ABF1", "U+ABF2",
     "U+ABF3", "U+ABF4", "U+ABF5", "U+ABF6", "U+ABF7", "U+ABF8", "U+ABF9",
     "U+FF10", "U+FF11", "U+FF12", "U+FF13", "U+FF14", "U+FF15", "U+FF16",
     "U+FF17", "U+FF18", "U+FF19", "U+104A0", "U+104A1", "U+104A2", "U+104A3",
     "U+104A4", "U+104A5", "U+104A6", "U+104A7", "U+104A8", "U+104A9",
     "U+10D30", "U+10D31", "U+10D32", "U+10D33", "U+10D34", "U+10D35",
     "U+10D36", "U+10D37", "U+10D38", "U+10D39", "U+11066", "U+11067",
     "U+11068", "U+11069", "U+1106A", "U+1106B", "U+1106C", "U+1106D",
     "U+1106E", "U+1106F", "U+110F0", "U+110F1", "U+110F2", "U+110F3",
     "U+110F4", "U+110F5", "U+110F6", "U+110F7", "U+110F8", "U+110F9",
     "U+11136", "U+11137", "U+11138", "U+11139", "U+1113A", "U+1113B",
     "U+1113C", "U+1113D", "U+1113E", "U+1113F", "U+111D0", "U+111D1",
     "U+111D2", "U+111D3", "U+111D4", "U+111D5", "U+111D6", "U+111D7",
     "U+111D8", "U+111D9", "U+112F0", "U+112F1", "U+112F2", "U+112F3",
     "U+112F4", "U+112F5", "U+112F6", "U+112F7", "U+112F8", "U+112F9",
     "U+11450", "U+11451", "U+11452", "U+11453", "U+11454", "U+11455",
     "U+11456", "U+11457", "U+11458", "U+11459", "U+114D0", "U+114D1",
     "U+114D2", "U+114D3", "U+114D4", "U+114D5", "U+114D6", "U+114D7",
     "U+114D8", "U+114D9", "U+11650", "U+11651", "U+11652", "U+11653",
     "U+11654", "U+11655", "U+11656", "U+11657", "U+11658", "U+11659",
     "U+116C0", "U+116C1", "U+116C2", "U+116C3", "U+116C4", "U+116C5",
     "U+116C6", "U+116C7", "U+116C8", "U+116C9", "U+11730", "U+11731",
     "U+11732", "U+11733", "U+11734", "U+11735", "U+11736", "U+11737",
     "U+11738", "U+11739", "U+118E0", "U+118E1", "U+118E2", "U+118E3",
     "U+118E4", "U+118E5", "U+118E6", "U+118E7", "U+118E8", "U+118E9",
     "U+11950", "U+11951", "U+11952", "U+11953", "U+11954", "U+11955",
     "U+11956", "U+11957", "U+11958", "U+11959", "U+11C50", "U+11C51",
     "U+11C52", "U+11C53", "U+11C54", "U+11C55", "U+11C56", "U+11C57",
     "U+11C58", "U+11C59", "U+11D50", "U+11D51", "U+11D52", "U+11D53",
     "U+11D54", "U+11D55", "U+11D56", "U+11D57", "U+11D58", "U+11D59",
     "U+11DA0", "U+11DA1", "U+11DA2", "U+11DA3", "U+11DA4", "U+11DA5",
     "U+11DA6", "U+11DA7", "U+11DA8", "U+11DA9", "U+16A60", "U+16A61",
     "U+16A62", "U+16A63", "U+16A64", "U+16A65", "U+16A66", "U+16A67",
     "U+16A68", "U+16A69", "U+16AC0", "U+16AC1", "U+16AC2", "U+16AC3",
     "U+16AC4", "U+16AC5", "U+16AC6", "U+16AC7", "U+16AC8", "U+16AC9",
     "U+16B50", "U+16B51", "U+16B52", "U+16B53", "U+16B54", "U+16B55",
     "U+16B56", "U+16B57", "U+16B58", "U+16B59", "U+1D7CE", "U+1D7CF",
     "U+1D7D0", "U+1D7D1", "U+1D7D2", "U+1D7D3", "U+1D7D4", "U+1D7D5",
     "U+1D7D6", "U+1D7D7", "U+1D7D8", "U+1D7D9", "U+1D7DA", "U+1D7DB",
     "U+1D7DC", "U+1D7DD", "U+1D7DE", "U+1D7DF", "U+1D7E0", "U+1D7E1",
     "U+1D7E2", "U+1D7E3", "U+1D7E4", "U+1D7E5", "U+1D7E6", "U+1D7E7",
     "U+1D7E8", "U+1D7E9", "U+1D7EA", "U+1D7EB", "U+1D7EC", "U+1D7ED",
     "U+1D7EE", "U+1D7EF", "U+1D7F0", "U+1D7F1", "U+1D7F2", "U+1D7F3",
     "U+1D7F4", "U+1D7F5", "U+1D7F6", "U+1D7F7", "U+1D7F8", "U+1D7F9",
     "U+1D7FA", "U+1D7FB", "U+1D7FC", "U+1D7FD", "U+1D7FE", "U+1D7FF",
     "U+1E140", "U+1E141", "U+1E142", "U+1E143", "U+1E144", "U+1E145",
     "U+1E146", "U+1E147", "U+1E148", "U+1E149", "U+1E2F0", "U+1E2F1",
     "U+1E2F2", "U+1E2F3", "U+1E2F4", "U+1E2F5", "U+1E2F6", "U+1E2F7",
     "U+1E2F8", "U+1E2F9", "U+1E950", "U+1E951", "U+1E952", "U+1E953",
     "U+1E954", "U+1E955", "U+1E956", "U+1E957", "U+1E958", "U+1E959",
     "U+1FBF0", "U+1FBF1", "U+1FBF2", "U+1FBF3", "U+1FBF4", "U+1FBF5",
     "U+1FBF6", "U+1FBF7", "U+1FBF8", "U+1FBF9"}

\* \d of a str pattern
IsDigit(c) == c \in Digits \/ c \in UnicodeDigits

StartsWith(s, prefix) ==
    Len(s) >= Len(prefix) /\ SubSeq(s, 1, Len(prefix)) = prefix
Drop(s, n) == SubSeq(s, n + 1, Len(s))

\* \d{2}:\d{2}:\d{2}<frac>\d{3} at the head of s (12 characters)
IsClock(s, frac) ==
    /\ Len(s) >= 12
    /\ \A i \in {1, 2, 4, 5, 7, 8, 10, 11, 12} : IsDigit(s[i])
    /\ s[3] = ":" /\ s[6] = ":" /\ s[9] = frac

ARROW == <<" ", "-", "-", ">", " ">>

\* <clock> --> <clock> at the head of s (29 characters)
IsRange(s, frac) ==
    /\ IsClock(s, frac)
    /\ StartsWith(Drop(s, 12), ARROW)
    /\ IsClock(Drop(s, 17), frac)

\* index of the first "\n" of s, 0 when there is none
FirstNewline(s) ==
    IF \E i \in 1..Len(s) : s[i] = "\n"
    THEN CHOOSE i \in 1..Len(s) : s[i] = "\n" /\ \A j \in 1..(i - 1) : s[j] # "\n"
    ELSE 0

\* index of the first "\n\n" of s, 0 when there is none
FirstBlankLine(s) ==
    IF \E i \in 1..(Len(s) - 1) : s[i] = "\n" /\ s[i + 1] = "\n"
    THEN CHOOSE i \in 1..(Len(s) - 1) :
             /\ s[i] = "\n" /\ s[i + 1] = "\n"
             /\ \A j \in 1..(i - 1) : ~(s[j] = "\n" /\ s[j + 1] = "\n")
    ELSE 0

WEBVTT == <<"W", "E", "B", "V", "T", "T">>

\* the least element of a non-empty set of positions
Leftmost(positions) == CHOOSE i \in positions : \A j \in positions : i <= j

(* re.sub replaces the leftmost match, then goes on behind it.  Each of the
   four substitutions below is given by the positions where its pattern
   matches and the length of the match that starts there. *)

\* re.sub(r"WEBVTT.*?\n\n", "", content, flags=re.DOTALL)
RECURSIVE SubVttHeader(_)
SubVttHeader(s) ==
    LET starts == {i \in 1..Len(s) :
                      /\ StartsWith(Drop(s, i - 1), WEBVTT)
                      /\ FirstBlankLine(Drop(s, i + 5)) # 0}
    IN IF starts = {} THEN s
       ELSE LET i == Leftmost(starts)
            IN SubSeq(s, 1, i - 1)
               \o SubVttHeader(Drop(s, i + 5 + FirstBlankLine(Drop(s, i + 5)) + 1))

\* re.sub(r"<clock> --> <clock>.*?\n", "", content) with "." in the clocks
RECURSIVE SubVttCues(_)
SubVttCues(s) ==
    LET starts == {i \in 1..Len(s) :
                      /\ IsRange(Drop(s, i - 1), ".")
                      /\ FirstNewline(Drop(s, i + 28)) # 0}
    IN IF starts = {} THEN s
       ELSE LET i == Leftmost(starts)
            IN SubSeq(s, 1, i - 1)
               \o SubVttCues(Drop(s, i + 28 + FirstNewline(Drop(s, i + 28))))

\* length of the run of digits at the head of s
RECURSIVE DigitRun(_)
DigitRun(s) == IF s # <<>> /\ IsDigit(Head(s)) THEN 1 + DigitRun(Tail(s)) ELSE 0

\* re.sub(r"\d+\n", "", content)
RECURSIVE SubSrtNumbers(_)
SubSrtNumbers(s) ==
    LET starts == {i \in 1..Len(s) :
                      LET n == DigitRun(Drop(s, i - 1))
                      IN n > 0 /\ Len(s) >= i + n /\ s[i + n] = "\n"}
    IN IF starts = {} THEN s
       ELSE LET i == Leftmost(starts)
            IN SubSeq(s, 1, i - 1)
               \o SubSrtNumbers(Drop(s, i + DigitRun(Drop(s, i - 1))))

\* re.sub(r"<clock> --> <clock>\n", "", content) with "," in the clocks
RECURSIVE SubSrtCues(_)
SubSrtCues(s) ==
    LET starts == {i \in 1..Len(s) :
                      /\ IsRange(Drop(s, i - 1), ",")
                      /\ Len(s) >= i + 29 /\ s[i + 29] = "\n"}
    IN IF starts = {} THEN s
       ELSE LET i == Leftmost(starts)
            IN SubSeq(s, 1, i - 1) \o SubSrtCues(Drop(s, i + 29))

\* content.split("\n")
RECURSIVE SplitLines(_)
SplitLines(s) ==
    LET k == FirstNewline(s)
    IN IF k = 0 THEN <<s>>
       ELSE <<SubSeq(s, 1, k - 1)>> \o SplitLines(Drop(s, k))

\* [line.strip() for line in lines if line.strip()]
RECURSIVE StripNonBlank(_)
StripNonBlank(lines) ==
    IF lines = <<>> THEN <<>>
    ELSE IF Strip(Head(lines)) = <<>> THEN StripNonBlank(Tail(lines))
    ELSE <<Strip(Head(lines))>> \o StripNonBlank(Tail(lines))

\* the texts of the segs of one event, stripped, the empty ones kept
EventTexts_unfiltered(segs) == [i \in 1..Len(segs) |-> Strip(segs[i])]

\* the texts of the segs of one event, stripped, the empty ones dropped
EventTexts(segs) == StripNonBlank(segs)

RECURSIVE AllTexts(_)
AllTexts(events) ==
    IF events = <<>> THEN <<>>
    ELSE EventTexts(Head(events)) \o AllTexts(Tail(events))

\* an exception that leaves _parse_subtitle_file
Raised == <<"<raise>">>

\* the except clause letting the exception through
ParseExcept_reraise == Raised

\* lines 446-448: except Exception: log, return None
ParseExcept == NoneStr

(* json.load raises on text that is no JSON; on JSON of a shape the code
   cannot walk (the document is a list or a string, "events" is null or a
   number, an event is a number, "segs" is null, a "utf8" is a number)
   data.get, the loops, event.get or .strip() raise. *)
ParseJson3(doc) ==
    IF doc.kind = "json" THEN JoinSpace(AllTexts(doc.events)) ELSE ParseExcept

ParseVtt(doc) ==
    JoinSpace(StripNonBlank(SplitLines(SubVttCues(SubVttHeader(doc.chars)))))

ParseSrt(doc) ==
    JoinSpace(StripNonBlank(SplitLines(SubSrtCues(SubSrtNumbers(doc.chars)))))

(* The text, or NoneStr for None: a missing file, an exception inside
   (json.load on text that is no JSON) and an unsupported ext give None. *)
_parse_subtitle_file(fsys, subtitle_path, ext) ==
    IF subtitle_path \notin DOMAIN fsys THEN NoneStr
    ELSE IF ext = JSON3 THEN ParseJson3(fsys[subtitle_path].doc)
    ELSE IF ext = VTT THEN ParseVtt(fsys[subtitle_path].doc)
    ELSE IF ext = SRT THEN ParseSrt(fsys[subtitle_path].doc)
    ELSE NoneStr

-----------------------------------------------------------------------------
(* What the external collaborators can hand back *)

HI == <<"h", "i">>
OK == <<"o", "k">>
ENGLISH == <<"e", "n", "g", "l", "i", "s", "h">>

Clock(frac) == <<"0", "0", ":", "0", "0", ":", "0", "1", frac, "0", "0", "0">>
CueLine(frac) == Clock(frac) \o ARROW \o Clock(frac) \o <<"\n">>
VttSample == WEBVTT \o <<"\n", "\n">> \o CueLine(".") \o HI \o <<"\n">>
SrtSample == <<"1", "\n">> \o CueLine(",") \o HI \o <<"\n">>

(* The enumeration results the platform hands the pipeline: no tracks at
   all; a manual English track next to an automatic French one; automatic
   tracks only; a manual track without formats; a manual track in a format
   the parser does not know. *)
PlatformInfos ==
    {[subtitles |-> <<>>, automatic_captions |-> <<>>],
     [subtitles |-> <<[lang |-> FR, formats |-> <<VTT>>],
                      [lang |-> EN, formats |-> <<VTT, JSON3>>]>>,
      automatic_captions |-> <<[lang |-> FR, formats |-> <<JSON3>>]>>],
     [subtitles |-> <<>>,
      automatic_captions |-> <<[lang |-> FR, formats |-> <<SRT, VTT>>],
                               [lang |-> DE, formats |-> <<JSON3>>]>>],
     [subtitles |-> <<[lang |-> DE, formats |-> <<>>]>>,
      automatic_captions |-> <<[lang |-> EN, formats |-> <<JSON3>>]>>],
     [subtitles |-> <<[lang |-> FR, formats |-> <<TTML>>]>>,
      automatic_captions |-> <<>>]}

\* the documents a caption download can write for a format
SubDocs(ext) ==
    IF ext = JSON3
    THEN {JsonDoc(<< <<HI, <<" ">>>>, <<>>, << <<" ", "o", "k">> >> >>),
          JsonDoc(<< << <<" ">> >> >>),
          TextDoc(<<"<", "h", "t", "m", "l", ">">>)}
    ELSE IF ext = VTT THEN {TextDoc(VttSample), TextDoc(<<"\n">>)}
    ELSE IF ext = SRT THEN {TextDoc(SrtSample), TextDoc(<<>>)}
    ELSE {TextDoc(<<"<", "t", "t", ">">>)}

\* OpenAI's upload limit, line 234
MAX_FILE_SIZE == 25 * 1024 * 1024

\* sizes of a downloaded and of a compressed audio file
AudioSizes == {MAX_FILE_SIZE, MAX_FILE_SIZE + 1}
CompressedSizes == {512, MAX_FILE_SIZE + 1}

\* result.text and result.language of a transcription (NoneStr: no attribute)
WhisperResults == [text : {<<" ", "h", "i", "\n">>, <<" ">>}, language : {NoneStr, ENGLISH}]

\* one name for the audio of every video
AudioPath_shared(video_id) == <<"a", "u", "d", "i", "o">> \o MP3

\* self.temp_dir / f"{video_id}.mp3"
AudioPath(video_id) == video_id \o MP3

\* Path.stem of an audio path: the name without its last suffix
Stem(path) ==
    LET dots == {i \in 2..Len(path) : path[i] = "."}
    IN IF dots = {} THEN path
       ELSE SubSeq(path, 1, (CHOOSE i \in dots : \A j \in dots : j <= i) - 1)

\* audio_path.parent / f"{audio_path.stem}_compressed.mp3"
CompressedPath(audio_path) == Stem(audio_path) \o COMPRESSED_MP3

VideoTranscript(video_id, language, source, text) ==
    [video_id |-> video_id, language |-> language, source |-> source, text |-> text]

Pending == [pending |-> TRUE]
Skipped == [skipped |-> TRUE]
NonePath == NoneStr

\* a file written into the temp directory
WriteFile(fsys, path, size, doc) ==
    [q \in DOMAIN fsys \cup {path} |->
        IF q = path THEN [size |-> size, doc |-> doc] ELSE fsys[q]]

\* path.unlink() when path.exists()
Unlink(fsys, path) == [q \in DOMAIN fsys \ {path} |-> fsys[q]]

-----------------------------------------------------------------------------
(* TranscriptExtractor.get_transcript, one action per external call *)

Called(label) == p_trace' = Append(p_trace, label)

\* get_transcript returns value to its caller
Returns(value) ==
    /\ ppc' = "returned"
    /\ p_result' = value

\* an exception leaves get_transcript
Raises(exc) ==
    /\ ppc' = "raised"
    /\ p_result' = [exception |-> exc]

\* CaptionStepReturns without `if transcript: return transcript`
CaptionStepReturns_fallthrough(transcript) ==
    /\ p_caption' = transcript
    /\ ppc' = "detect_language"
    /\ UNCHANGED p_result

(* Lines 46-51: _get_youtube_subtitles returned transcript; a transcript is
   returned at once, None goes on to the language detection of line 51. *)
CaptionStepReturns(transcript) ==
    /\ p_caption' = transcript
    /\ IF transcript # NoneT
       THEN Returns(transcript)
       ELSE ppc' = "detect_language" /\ UNCHANGED p_result

\* lines 204-206: except Exception in _get_youtube_subtitles
CaptionStepExcept(exc) == CaptionStepReturns(NoneT)

\* WhisperExcept without the except clause: the exception goes on
WhisperExcept_reraise(exc) == Raises(exc)

\* lines 290-292: except Exception in _get_whisper_transcript
WhisperExcept(exc) == Returns(NoneT)

\* the call itself: the arguments are bound and the body starts
StartTranscript(video_id, video_metadata, prefer_subtitles) ==
    /\ p_vid' = video_id
    /\ p_meta' = video_metadata
    /\ p_prefer' = prefer_subtitles
    /\ p_sel' = NoSel
    /\ p_lang' = NoneStr
    /\ p_audio' = NonePath
    /\ p_result' = NoneT
    /\ p_trace' = <<>>
    /\ p_created' = {}
    /\ IF prefer_subtitles
       THEN ppc' = "subs_extract" /\ p_caption' = Pending
       ELSE ppc' = "detect_language" /\ p_caption' = Skipped

\* a direct call of get_transcript
GetTranscript ==
    /\ ppc = "idle"
    /\ hpc = "idle"
    /\ ncalls < MaxCalls
    /\ ncalls' = ncalls + 1
    /\ \E video_id \in VideoIds, video_metadata \in Metas, prefer_subtitles \in BOOLEAN :
          StartTranscript(video_id, video_metadata, prefer_subtitles)
    /\ UNCHANGED <<openai_client, fs, hvars, fvars>>

\* lines 126-166: extract_info, then the selection of track, format and path
SubsExtractInfo ==
    /\ ppc = "subs_extract"
    /\ Called("extract_info")
    /\ \/ /\ CaptionStepExcept("extract_info")
          /\ UNCHANGED p_sel
       \/ \E info \in PlatformInfos :
            LET sel == SelectTrack(p_vid, info)
            IN IF sel.kind = "ok"
               THEN /\ p_sel' = sel
                    /\ ppc' = "subs_download"
                    /\ UNCHANGED <<p_caption, p_result>>
               ELSE IF sel.kind = "none"
               THEN CaptionStepReturns(NoneT) /\ UNCHANGED p_sel
               ELSE CaptionStepExcept("IndexError") /\ UNCHANGED p_sel
    /\ UNCHANGED <<openai_client, fs, outer, p_vid, p_meta, p_prefer, p_lang,
                   p_audio, p_created>>

(* Lines 168-179: the caption download.  yt_dlp raises, or returns having
   written the file under the path the parser will read, under the name it
   derives itself from outtmpl (a file the code never reads), or nowhere. *)
SubsDownload ==
    /\ ppc = "subs_download"
    /\ Called("subs_download")
    /\ \/ /\ CaptionStepExcept("download")
          /\ UNCHANGED fs
       \/ /\ \/ UNCHANGED fs
             \/ \E doc \in SubDocs(p_sel.ext) :
                   fs' = WriteFile(fs, p_sel.path, 0, doc)
             \/ fs' = WriteFile(fs, ToolSubtitlePath(p_vid, p_sel.language, p_sel.ext),
                                0, TextDoc(<<>>))
          /\ ppc' = "subs_parse"
          /\ UNCHANGED <<p_caption, p_result>>
    /\ UNCHANGED <<openai_client, outer, p_vid, p_meta, p_prefer, p_sel, p_lang,
                   p_audio, p_created>>

\* lines 181-202: parse, delete the caption file, build the transcript
SubsParse ==
    /\ ppc = "subs_parse"
    /\ LET transcript_text == _parse_subtitle_file(fs, p_sel.path, p_sel.ext)
           source == IF p_sel.manual THEN "youtube_subtitles"
                     ELSE "youtube_auto_captions"
       IN /\ fs' = Unlink(fs, p_sel.path)
          /\ IF TruthyStr(transcript_text)
             THEN CaptionStepReturns(
                      VideoTranscript(p_vid, p_sel.language, source, transcript_text))
             ELSE CaptionStepReturns(NoneT)
    /\ UNCHANGED <<openai_client, outer, p_vid, p_meta, p_prefer, p_sel, p_lang,
                   p_audio, p_trace, p_created>>

(* Line 51, in get_transcript and outside every try:
   `self._detect_language(video_metadata) if video_metadata else None`.
   What _detect_language raises leaves get_transcript. *)
DetectLanguage ==
    /\ ppc = "detect_language"
    /\ LET detected_language == IF TruthyMeta(p_meta) THEN _detect_language(p_meta)
                                ELSE NoneStr
       IN IF detected_language = AttributeError
          THEN Raises("AttributeError") /\ UNCHANGED p_lang
          ELSE /\ p_lang' = detected_language
               /\ ppc' = "fallback"
               /\ UNCHANGED p_result
    /\ UNCHANGED <<openai_client, fs, outer, p_vid, p_meta, p_prefer, p_sel,
                   p_caption, p_audio, p_trace, p_created>>

\* WhisperStart without `if not self.openai_client: return None`
WhisperStart_unguarded ==
    /\ ppc = "fallback"
    /\ Called("_get_whisper_transcript")
    /\ ppc' = "download_audio"
    /\ UNCHANGED <<openai_client, fs, outer, p_vid, p_meta, p_prefer, p_sel,
                   p_caption, p_lang, p_audio, p_created, p_result>>

\* lines 52 and 219-226: the entry of _get_whisper_transcript
WhisperStart ==
    /\ ppc = "fallback"
    /\ Called("_get_whisper_transcript")
    /\ IF ~openai_client
       THEN Returns(NoneT)
       ELSE ppc' = "download_audio" /\ UNCHANGED p_result
    /\ UNCHANGED <<openai_client, fs, outer, p_vid, p_meta, p_prefer, p_sel,
                   p_caption, p_lang, p_audio, p_created>>

(* Lines 229-231 and 338-377: _download_audio.  yt_dlp raises, or returns
   having written the mp3 or not; the path is returned when the file exists. *)
DownloadAudio ==
    /\ ppc = "download_audio"
    /\ Called("download_audio")
    /\ \/ /\ Returns(NoneT)
          /\ UNCHANGED <<fs, p_audio, p_created>>
       \/ \E size \in AudioSizes :
            /\ fs' = WriteFile(fs, AudioPath(p_vid), size, AudioDoc)
            /\ p_created' = p_created \cup {AudioPath(p_vid)}
            /\ p_audio' = AudioPath(p_vid)
            /\ ppc' = "size_guard"
            /\ UNCHANGED p_result
       \/ /\ UNCHANGED <<fs, p_created>>
          /\ IF AudioPath(p_vid) \in DOMAIN fs
             THEN p_audio' = AudioPath(p_vid) /\ ppc' = "size_guard"
                  /\ UNCHANGED p_result
             ELSE Returns(NoneT) /\ UNCHANGED p_audio
    /\ UNCHANGED <<openai_client, outer, p_vid, p_meta, p_prefer, p_sel,
                   p_caption, p_lang>>

\* Oversized with the boundary on the other side
Oversized_inclusive(file_size) == file_size >= MAX_FILE_SIZE

\* line 237: file_size > MAX_FILE_SIZE
Oversized(file_size) == file_size > MAX_FILE_SIZE

\* SizeGuard without the size check: every file goes to the call as it is
SizeGuard_skip ==
    /\ ppc = "size_guard"
    /\ ppc' = "whisper_call"
    /\ UNCHANGED <<openai_client, fs, outer, p_vid, p_meta, p_prefer, p_sel,
                   p_caption, p_lang, p_audio, p_result, p_trace, p_created>>

(* Lines 233-242 and 294-336: the size check and _compress_audio.  ffmpeg
   exits 0 having written the compressed file, exits non-zero
   (CalledProcessError) with or without a partial output file, or cannot be
   run at all (any other exception). *)
SizeGuard ==
    /\ ppc = "size_guard"
    /\ IF Oversized(fs[p_audio].size)
       THEN /\ Called("ffmpeg")
            /\ \/ \E size \in CompressedSizes :
                    /\ fs' = Unlink(WriteFile(fs, CompressedPath(p_audio), size, AudioDoc),
                                    p_audio)
                    /\ p_created' = p_created \cup {CompressedPath(p_audio)}
                    /\ p_audio' = CompressedPath(p_audio)
                    /\ ppc' = "whisper_call"
                    /\ UNCHANGED p_result
               \/ /\ fs' = WriteFile(fs, CompressedPath(p_audio), 0, AudioDoc)
                  /\ p_created' = p_created \cup {CompressedPath(p_audio)}
                  /\ Returns(NoneT)
                  /\ UNCHANGED p_audio
               \/ /\ Returns(NoneT)
                  /\ UNCHANGED <<fs, p_created, p_audio>>
       ELSE /\ ppc' = "whisper_call"
            /\ UNCHANGED <<fs, p_created, p_audio, p_result, p_trace>>
    /\ UNCHANGED <<openai_client, outer, p_vid, p_meta, p_prefer, p_sel,
                   p_caption, p_lang>>

\* lines 253-255: the language parameter of the transcription call (NoneStr: not sent)
TranscriptionLanguage(language) == IF TruthyStr(language) THEN language ELSE NoneStr

\* lines 279-288: the transcript built from a transcription result
WhisperTranscript(video_id, language, result) ==
    VideoTranscript(
        video_id,
        IF result.language # NoneStr THEN result.language
        ELSE IF TruthyStr(language) THEN language ELSE UNKNOWN,
        "openai_whisper_api",
        Strip(result.text))

(* Lines 244-292: the transcription call.  It raises (the except clause
   returns None) or returns a result; the audio file is deleted after a
   result came back. *)
WhisperCall ==
    /\ ppc = "whisper_call"
    /\ Called("whisper_api")
    /\ \/ /\ WhisperExcept("transcriptions.create")
          /\ UNCHANGED fs
       \/ \E result \in WhisperResults :
            /\ fs' = Unlink(fs, p_audio)
            /\ Returns(WhisperTranscript(p_vid, p_lang, result))
    /\ UNCHANGED <<openai_client, outer, p_vid, p_meta, p_prefer, p_sel,
                   p_caption, p_lang, p_audio, p_created>>

\* the extractor is free again
ResetPipeline ==
    /\ ppc' = "idle"
    /\ p_vid' = <<>>
    /\ p_meta' = MetaNone
    /\ p_prefer' = TRUE
    /\ p_sel' = NoSel
    /\ p_caption' = Pending
    /\ p_lang' = NoneStr
    /\ p_audio' = NonePath
    /\ p_result' = NoneT
    /\ p_trace' = <<>>
    /\ p_created' = {}

\* the caller of a direct call has its answer
Return ==
    /\ ppc \in {"returned", "raised"}
    /\ hpc = "idle"
    /\ ResetPipeline
    /\ UNCHANGED <<openai_client, fs, outer>>

EmptyFs == [q \in {} |-> AudioDoc]

\* an empty temp directory and an idle extractor
PipelineIdle ==
    /\ fs = EmptyFs
    /\ ppc = "idle"
    /\ p_vid = <<>>
    /\ p_meta = MetaNone
    /\ p_prefer = TRUE
    /\ p_sel = NoSel
    /\ p_caption = Pending
    /\ p_lang = NoneStr
    /\ p_audio = NonePath
    /\ p_result = NoneT
    /\ p_trace = <<>>
    /\ p_created = {}

\* TranscriptExtractor.__init__ (lines 20-28): the client is set when a key is
PipelineInit ==
    /\ openai_client \in BOOLEAN
    /\ PipelineIdle

PipelineStep ==
    \/ SubsExtractInfo
    \/ SubsDownload
    \/ SubsParse
    \/ DetectLanguage
    \/ WhisperStart
    \/ DownloadAudio
    \/ SizeGuard
    \/ WhisperCall

\* the globals of fastmcp_server before initialize_clients ran (lines 41-43)
NoClients ==
    [youtube_client |-> FALSE, transcript_extractor |-> FALSE, summarizer |-> FALSE]

\* no tool call is being handled
HandlerIdle ==
    /\ g_clients = NoClients
    /\ hpc = "idle"
    /\ h_server = "none"
    /\ h_tool = "none"
    /\ h_args = [absent |-> TRUE]
    /\ h_channel = NoneStr
    /\ h_videos = <<>>
    /\ h_i = 0
    /\ h_summaries = <<>>
    /\ h_response = [kind |-> "none"]
    /\ h_log = <<>>
    /\ nlisted = 0

\* no tool handler runs
NoHandler ==
    /\ config_kind = "ok"
    /\ provider = "up"
    /\ HandlerIdle

\* no function is under check on its own
Unset == [kind |-> "unset"]
NoFunction ==
    /\ fn_in = [absent |-> TRUE]
    /\ fn_out = Unset
    /\ threads = <<>>

Init ==
    /\ PipelineInit
    /\ ncalls = 0
    /\ NoHandler
    /\ NoFunction

Next ==
    \/ GetTranscript
    \/ PipelineStep
    \/ Return

Spec == Init /\ [][Next]_vars

-----------------------------------------------------------------------------
(* Properties of get_transcript, checked under Spec *)

IsTranscript(t) == DOMAIN t = {"video_id", "language", "source", "text"}
InTrace(label) == \E i \in 1..Len(p_trace) : p_trace[i] = label

(* C1: get_transcript never raises to its caller.  Whatever the video id,
   the metadata and the failures of enumeration, caption download, parsing,
   audio download, transcoding and transcription, no exception leaves the
   call, every position inside the call has a next step (the parse has its
   selected track, the size check its file), and the value returned is a
   transcript or None. *)
C1_NeverRaises ==
    /\ ppc # "raised"
    /\ ppc = "subs_extract" => ENABLED SubsExtractInfo
    /\ ppc = "subs_download" => ENABLED SubsDownload
    /\ ppc = "subs_parse" => (p_sel # NoSel /\ p_sel.kind = "ok")
    /\ ppc = "detect_language" => ENABLED DetectLanguage
    /\ ppc = "fallback" => ENABLED WhisperStart
    /\ ppc = "download_audio" => ENABLED DownloadAudio
    /\ ppc = "size_guard" => (p_audio \in DOMAIN fs /\ ENABLED SizeGuard)
    /\ ppc = "whisper_call" => ENABLED WhisperCall
    /\ ppc = "returned" => (p_result = NoneT \/ IsTranscript(p_result))

\* C1's case: the transcription call was made and failed, None came back
C1_Witness ==
    /\ ppc = "returned"
    /\ p_result = NoneT
    /\ InTrace("extract_info")
    /\ p_trace[Len(p_trace)] = "whisper_api"

FallbackCalls == {"_get_whisper_transcript", "download_audio", "ffmpeg", "whisper_api"}

    /\ p_trace = <<"extract_info", "subs_download", "_get_whisper_transcript",
                   "download_audio", "whisper_api">>
    /\ IsTranscript(p_result)

(* C3: a transcript that get_transcript returns has non-empty text; an
   empty result is reported as None. *)
C3_NonEmptyText ==
    (ppc = "returned" /\ IsTranscript(p_result)) => p_result.text # <<>>

(* C4: every audio file a get_transcript invocation created (the download
   and the compressed file) is gone when the invocation returns. *)
C4_AudioDeleted ==
    ppc \in {"returned", "raised"} => p_created \cap DOMAIN fs = {}

-----------------------------------------------------------------------------
(* The tool handlers of fastmcp_server.py and server.py *)

\* videos a channel has, and videos listed in one behaviour
MaxVideos == 2

HANDLE == <<"@", "x">>
UCID == <<"U", "C">> \o [i \in 1..22 |-> "a"]

\* a name that starts with "UC" and is no channel id
UCNAME == <<"U", "C", "x">>

\* IsChannelId without the length
IsChannelId_prefix(username) == StartsWith(username, <<"U", "C">>)

\* username.startswith("UC") and len(username) == 24
IsChannelId(username) == StartsWith(username, <<"U", "C">>) /\ Len(username) = 24

\* what the data API lists for a video: its id and default audio language
Video(k, lang) == [video_id |-> <<"v", ToString(k)>>, default_audio_language |-> lang]
Catalogue == [k \in 1..MaxVideos |-> Video(k, IF k = 1 THEN ZH_CN ELSE NoneStr)]
\* the uploads of a channel, newest first
Channels == {SubSeq(Catalogue, 1, k) : k \in 0..MaxVideos}

Min(a, b) == IF a <= b THEN a ELSE b

\* videos[:max_results]
Slice(videos, max_results) ==
    IF max_results >= 0 THEN SubSeq(videos, 1, Min(max_results, Len(videos)))
    ELSE SubSeq(videos, 1, Len(videos) + max_results)

(* The pagination loop of get_latest_videos and get_videos_by_timerange:
   while fewer than max_results videos are collected, a page of at most
   min(50, max_results - len(videos)) items is requested; the loop ends
   when the page carries no nextPageToken. *)
RECURSIVE ListLoop(_, _, _)
ListLoop(uploads, videos, max_results) ==
    IF Len(videos) < max_results
    THEN LET rest == Drop(uploads, Len(videos))
             page == SubSeq(rest, 1, Min(Min(50, max_results - Len(videos)), Len(rest)))
         IN IF Len(rest) > Len(page)
            THEN ListLoop(uploads, videos \o page, max_results)
            ELSE videos \o page
    ELSE videos

\* YouTubeClient.get_latest_videos on a channel with these uploads
get_latest_videos(uploads, max_results) ==
    Slice(ListLoop(uploads, <<>>, max_results), max_results)

\* YouTubeClient.get_videos_by_timerange when these videos are in the range
get_videos_by_timerange(in_range, max_results) ==
    Slice(ListLoop(in_range, <<>>, max_results), max_results)

Servers == {"fastmcp", "server"}
SummaryTools == {"get_latest_videos_summary", "get_videos_by_timerange"}
Tools == {"get_channel_metadata"} \cup SummaryTools

(* The arguments of a call: username, count (n, max_videos) and dates
   ("iso": both parse, "bad": one does not, "empty": one is the empty
   string, "none": the tool has none).
   The counts are below the range, in it and above it. *)
Args(username, count, dates) == [username |-> username, count |-> count, dates |-> dates]
ArgsOf(tool) ==
    IF tool = "get_channel_metadata"
    THEN {Args(HANDLE, 0, "none"), Args(UCID, 0, "none"), Args(UCNAME, 0, "none"),
          Args(<<>>, 0, "none")}
    ELSE IF tool = "get_latest_videos_summary"
    THEN {Args(HANDLE, 0, "none"), Args(HANDLE, 1, "none"), Args(UCID, 2, "none"),
          Args(HANDLE, 51, "none"), Args(<<>>, 1, "none")}
    ELSE {Args(HANDLE, 0, "iso"), Args(UCID, 2, "iso"), Args(HANDLE, 2, "bad"),
          Args(UCID, 101, "iso"), Args(<<>>, 1, "iso"), Args(HANDLE, 1, "empty")}

Logged(ev, i) == h_log' = Append(h_log, [ev |-> ev, i |-> i])

\* the handler returns response
Finish(response) ==
    /\ hpc' = "done"
    /\ h_response' = response

(* An error response: fastmcp_server returns the JSON object {"error": ...},
   server.py a TextContent whose text is the message. *)
ErrorResponse(server, message) ==
    [kind |-> "error",
     form |-> IF server = "fastmcp" THEN "json" ELSE "text",
     message |-> message]

\* an exception leaves the handler
Escaped(exc) == [kind |-> "exception", exc |-> exc]

(* The response of get_channel_metadata for a channel that was found: the
   metadata, under "channel_id" the id the client resolved. *)
MetadataResponse(channel_id) == [kind |-> "success", channel_id |-> channel_id]

(* A summary as the response carries it: the time range responses leave
   transcript_source (and other keys) out. *)
SummaryDict(tool, summary) ==
    IF tool = "get_videos_by_timerange"
    THEN [video_id |-> summary.video_id, summary |-> summary.summary]
    ELSE summary

\* [{...} for s in summaries]
SummaryDicts(tool, summaries) ==
    [k \in 1..Len(summaries) |-> SummaryDict(tool, summaries[k])]

\* SuccessResponse with videos_processed counting the listing
SuccessResponse_listed(tool, username, videos, summaries) ==
    [kind |-> "success",
     channel |-> username,
     videos_found |-> IF tool = "get_videos_by_timerange" THEN Len(videos) ELSE -1,
     videos_processed |-> Len(videos),
     summaries |-> SummaryDicts(tool, summaries)]

(* The response built after the loop; videos_found is a key of the time
   range response only (-1: no such key). *)
SuccessResponse(tool, username, videos, summaries) ==
    [kind |-> "success",
     channel |-> username,
     videos_found |-> IF tool = "get_videos_by_timerange" THEN Len(videos) ELSE -1,
     videos_processed |-> Len(summaries),
     summaries |-> SummaryDicts(tool, summaries)]

\* AppendSummary putting the new summary first
AppendSummary_front(summaries, summary) == <<summary>> \o summaries

\* summaries.append(...)
AppendSummary(summaries, summary) == Append(summaries, summary)

(* _generate_summary: the provider's answer parsed ("generated"), or, when
   the provider call or the parsing raises, the inner except clause's
   "Summary generation failed" dictionary ("fallback"). *)
GenerateSummary ==
    IF provider = "up" THEN {"generated"} ELSE {"generated", "fallback"}

\* the fields of a VideoSummary the model follows
VideoSummary(video, transcript, summary_data) ==
    [video_id |-> video.video_id, transcript_source |-> transcript.source,
     summary |-> summary_data]

\* SkipVideo ending the batch instead
SkipVideo_abort ==
    /\ Finish(ErrorResponse(h_server, "no transcript"))
    /\ UNCHANGED h_i

\* `if not transcript: continue`
SkipVideo ==
    /\ h_i' = h_i + 1
    /\ hpc' = "loop"
    /\ UNCHANGED h_response

(* The exceptions that are a ValueError: datetime.fromisoformat on a text
   that is no date, and pydantic's ValidationError when VideoSummary is built
   from an answer of the wrong types. *)
ValueErrors == {"Invalid isoformat string", "ValidationError"}

(* The except clauses of the summary handlers.  `except Exception` answers
   with the exception's text; fastmcp_server.get_videos_by_timerange has
   `except ValueError` before it, around the whole body: every ValueError,
   whoever raised it, is answered as an invalid date. *)
HandlerExcept(exc) ==
    IF h_server = "fastmcp" /\ h_tool = "get_videos_by_timerange" /\ exc \in ValueErrors
    THEN Finish(ErrorResponse(h_server, "Invalid date format"))
    ELSE Finish(ErrorResponse(h_server, exc))

\* a tool is called
CallTool ==
    /\ hpc = "idle"
    /\ ppc = "idle"
    /\ nlisted < MaxVideos
    /\ \E server \in Servers, tool \in Tools :
         \* server.py serves only after main() initialized its clients
         /\ server = "server" => config_kind = "ok"
         /\ h_server' = server
         /\ h_tool' = tool
         /\ h_args' \in ArgsOf(tool)
         /\ hpc' = IF server = "fastmcp" THEN "initialize" ELSE "validate"
    /\ h_channel' = NoneStr
    /\ h_videos' = <<>>
    /\ h_i' = 0
    /\ h_summaries' = <<>>
    /\ h_response' = [kind |-> "none"]
    /\ h_log' = <<>>
    /\ UNCHANGED <<openai_client, fs, pvars, ncalls, fvars, config_kind, provider, g_clients,
                   nlisted>>

\* the positions inside initialize_clients
InitPcs == {"initialize", "init_youtube", "init_extractor", "init_summarizer"}

(* One step of fastmcp_server.initialize_clients from position pc with the
   globals clients: the test of youtube_client and validate_keys (lines
   50-58), then the three assignments one after another (lines 61-63), each
   after its constructor; VideoSummarizer() raises for a provider it does
   not know.  No lock is held. *)
initialize_clients(pc, clients) ==
    IF pc = "initialize"
    THEN IF clients.youtube_client THEN [pc |-> "returned", clients |-> clients]
         ELSE IF config_kind = "missing_keys" THEN [pc |-> "raised", clients |-> clients]
         ELSE [pc |-> "init_youtube", clients |-> clients]
    ELSE IF pc = "init_youtube"
    THEN [pc |-> "init_extractor", clients |-> [clients EXCEPT !.youtube_client = TRUE]]
    ELSE IF pc = "init_extractor"
    THEN [pc |-> "init_summarizer",
          clients |-> [clients EXCEPT !.transcript_extractor = TRUE]]
    ELSE IF config_kind = "unsupported_provider"
    THEN [pc |-> "raised", clients |-> clients]
    ELSE [pc |-> "returned", clients |-> [clients EXCEPT !.summarizer = TRUE]]

(* fastmcp_server.initialize_clients, the first statement of each tool and
   outside any try: what it raises leaves the tool. *)
InitializeClients ==
    /\ hpc \in InitPcs
    /\ IF hpc = "initialize" THEN Logged("initialize_clients", 0) ELSE UNCHANGED h_log
    /\ LET step == initialize_clients(hpc, g_clients)
       IN /\ g_clients' = step.clients
          /\ IF step.pc = "raised" THEN Finish(Escaped("ValueError"))
             ELSE /\ hpc' = IF step.pc = "returned" THEN "validate" ELSE step.pc
                  /\ UNCHANGED h_response
    /\ UNCHANGED <<openai_client, fs, pvars, ncalls, fvars, config_kind, provider, h_server,
                   h_tool, h_args, h_channel, h_videos, h_i, h_summaries, nlisted>>

\* fastmcp_server's range checks: n in 1..50, max_videos in 1..100
InRange(tool, count) ==
    IF tool = "get_latest_videos_summary" THEN ~(count < 1 \/ count > 50)
    ELSE ~(count < 1 \/ count > 100)

\* server.py's guards: `if not username`, `if not all([username, start, end])`
Required(tool, args) ==
    IF tool = "get_videos_by_timerange"
    THEN TruthyStr(args.username) /\ args.dates # "empty"
    ELSE TruthyStr(args.username)

(* What a handler does before its first collaborator call: server.py
   answers an empty (or missing) argument with an error and has no check of
   the count; fastmcp_server checks the count and returns {"error"} and has
   no check of the other arguments; both parse the two dates of a time range
   inside the try, where fromisoformat raises ValueError on a text that is
   no date, the empty one included. *)
Validate ==
    /\ hpc = "validate"
    /\ IF h_server = "server" /\ ~Required(h_tool, h_args)
       THEN Finish(ErrorResponse(h_server,
                     IF h_tool = "get_videos_by_timerange"
                     THEN "username, start_date, and end_date are required"
                     ELSE "username is required"))
       ELSE IF h_tool = "get_channel_metadata"
       THEN hpc' = "channel_metadata" /\ UNCHANGED h_response
       ELSE IF h_server = "fastmcp" /\ ~InRange(h_tool, h_args.count)
       THEN Finish(ErrorResponse(h_server,
                     IF h_tool = "get_latest_videos_summary"
                     THEN "n must be between 1 and 50"
                     ELSE "max_videos must be between 1 and 100"))
       ELSE IF h_tool = "get_videos_by_timerange" /\ h_args.dates \in {"bad", "empty"}
       THEN HandlerExcept("Invalid isoformat string")
       ELSE hpc' = "resolve" /\ UNCHANGED h_response
    /\ UNCHANGED <<openai_client, fs, pvars, ncalls, fvars, config_kind, provider, g_clients,
                   h_server, h_tool, h_args, h_channel, h_videos, h_i, h_summaries,
                   h_log, nlisted>>

(* The channel id: a name that starts with "UC" and has 24 characters is
   used as it is, any other goes to get_channel_id_from_username, which
   returns an id, returns None (nothing found, or HttpError), or raises. *)
Resolve ==
    /\ hpc = "resolve"
    /\ IF IsChannelId(h_args.username)
       THEN /\ h_channel' = h_args.username
            /\ hpc' = "list"
            /\ UNCHANGED <<h_response, h_log>>
       ELSE /\ Logged("get_channel_id_from_username", 0)
            /\ \/ /\ h_channel' = UCID
                  /\ hpc' = "list"
                  /\ UNCHANGED h_response
               \/ /\ Finish(ErrorResponse(h_server, "Channel not found"))
                  /\ UNCHANGED h_channel
               \/ /\ HandlerExcept("lookup")
                  /\ UNCHANGED h_channel
    /\ UNCHANGED <<openai_client, fs, pvars, ncalls, fvars, config_kind, provider, g_clients,
                   h_server, h_tool, h_args, h_videos, h_i, h_summaries, nlisted>>

(* The listing: the videos of the channel up to the count asked for, an
   empty list (no such channel, nothing in the range, or HttpError), or an
   exception that is no HttpError: a ValueError (a publishedAt that is no
   date) or another. *)
List ==
    /\ hpc = "list"
    /\ Logged(IF h_tool = "get_latest_videos_summary" THEN "get_latest_videos"
              ELSE "get_videos_by_timerange", 0)
    /\ \/ /\ \E exc \in {"listing", "Invalid isoformat string"} : HandlerExcept(exc)
          /\ UNCHANGED <<h_videos, h_i, nlisted>>
       \/ \E uploads \in Channels :
            LET videos == IF h_tool = "get_latest_videos_summary"
                          THEN get_latest_videos(uploads, h_args.count)
                          ELSE get_videos_by_timerange(uploads, h_args.count)
            IN /\ nlisted + Len(videos) <= MaxVideos
               /\ nlisted' = nlisted + Len(videos)
               /\ IF videos = <<>>
                  THEN /\ Finish(ErrorResponse(h_server,
                                  IF h_tool = "get_latest_videos_summary"
                                  THEN "No videos found"
                                  ELSE "No videos found in this time range"))
                       /\ UNCHANGED <<h_videos, h_i>>
                  ELSE /\ h_videos' = videos
                       /\ h_i' = 1
                       /\ hpc' = "loop"
                       /\ UNCHANGED h_response
    /\ UNCHANGED <<openai_client, fs, pvars, ncalls, fvars, config_kind, provider, g_clients,
                   h_server, h_tool, h_args, h_channel, h_summaries>>

\* the metadata dict the handlers build for a video
video_metadata_dict(video) ==
    [snippet |-> [defaultAudioLanguage |-> video.default_audio_language,
                  defaultLanguage |-> NoneStr]]

(* `for video in videos`: get_transcript is called for the next video, or
   the loop is over and the response is built. *)
LoopStep ==
    /\ hpc = "loop"
    /\ ppc = "idle"
    /\ IF h_i <= Len(h_videos)
       THEN /\ StartTranscript(h_videos[h_i].video_id,
                               video_metadata_dict(h_videos[h_i]), TRUE)
            /\ Logged("get_transcript", h_i)
            /\ hpc' = "transcript"
            /\ UNCHANGED h_response
       ELSE /\ Finish(SuccessResponse(h_tool, h_args.username, h_videos, h_summaries))
            /\ UNCHANGED <<pvars, h_log>>
    /\ UNCHANGED <<openai_client, fs, ncalls, fvars, config_kind, provider, g_clients,
                   h_server, h_tool, h_args, h_channel, h_videos, h_i, h_summaries, nlisted>>

\* the handler's summarizer is set
SummarizerSet == h_server = "server" \/ g_clients.summarizer

(* get_transcript is back.  None skips the video; a transcript goes to
   summarize_video, whose summary (the provider's, or the fallback after a
   provider error) is appended (by fastmcp_server as the dictionary of the
   response, by server.py as it is) or whose exception ends the loop in the
   handler's except clause; on a summarizer that is None the call raises
   AttributeError. *)
TranscriptReturned ==
    /\ hpc = "transcript"
    /\ ppc \in {"returned", "raised"}
    /\ ResetPipeline
    /\ IF ppc = "raised"
       THEN /\ HandlerExcept("get_transcript")
            /\ UNCHANGED <<h_i, h_summaries, h_log>>
       ELSE IF p_result = NoneT
       THEN /\ SkipVideo
            /\ Logged("absent", h_i)
            /\ UNCHANGED h_summaries
       ELSE /\ Logged("summarize_video", h_i)
            /\ \/ /\ SummarizerSet
                  /\ \E summary_data \in GenerateSummary :
                       LET summary == VideoSummary(h_videos[h_i], p_result, summary_data)
                       IN h_summaries' =
                             AppendSummary(h_summaries,
                                           IF h_server = "fastmcp"
                                           THEN SummaryDict(h_tool, summary)
                                           ELSE summary)
                  /\ h_i' = h_i + 1
                  /\ hpc' = "loop"
                  /\ UNCHANGED h_response
               \/ /\ SummarizerSet
                  /\ \E exc \in {"summarize_video", "ValidationError"} : HandlerExcept(exc)
                  /\ UNCHANGED <<h_i, h_summaries>>
               \/ /\ ~SummarizerSet
                  /\ HandlerExcept("AttributeError")
                  /\ UNCHANGED <<h_i, h_summaries>>
    /\ UNCHANGED <<openai_client, fs, ncalls, fvars, config_kind, provider, g_clients,
                   h_server, h_tool, h_args, h_channel, h_videos, nlisted>>

\* what leaves get_channel_metadata when its client call raises
MetadataRaises(exc) ==
    IF h_server = "server" THEN Finish(ErrorResponse(h_server, exc))
    ELSE Finish(Escaped(exc))

(* get_channel_metadata: YouTubeClient.get_channel_metadata takes a name
   that starts with "UC" and has 24 characters as the channel id and sends
   any other to get_channel_id_from_username.  Without an id it returns
   None; with one it returns the metadata, returns None (no such channel,
   or HttpError), or raises anything that is no HttpError (a record without
   "statistics", a value the model rejects).  Neither handler has a try;
   server.py's call_tool catches what leaves its handler, fastmcp_server has
   nothing around the tool. *)
ChannelMetadata ==
    /\ hpc = "channel_metadata"
    /\ LET lookup == ~IsChannelId(h_args.username)
           called == Append(h_log, [ev |-> "get_channel_metadata", i |-> 0])
       IN /\ h_log' = IF lookup
                      THEN Append(called, [ev |-> "get_channel_id_from_username", i |-> 0])
                      ELSE called
          /\ \/ /\ h_channel' = IF lookup THEN UCID ELSE h_args.username
                /\ \/ Finish(MetadataResponse(IF lookup THEN UCID ELSE h_args.username))
                   \/ Finish(ErrorResponse(h_server, "Channel not found"))
                   \/ MetadataRaises("KeyError")
             \/ /\ lookup
                /\ UNCHANGED h_channel
                /\ \/ Finish(ErrorResponse(h_server, "Channel not found"))
                   \/ MetadataRaises("lookup")
    /\ UNCHANGED <<openai_client, fs, pvars, ncalls, fvars, config_kind, provider, g_clients,
                   h_server, h_tool, h_args, h_videos, h_i, h_summaries, nlisted>>

\* the client has its answer; the server is ready for the next call
Respond ==
    /\ hpc = "done"
    /\ hpc' = "idle"
    /\ h_server' = "none"
    /\ h_tool' = "none"
    /\ h_args' = [absent |-> TRUE]
    /\ h_channel' = NoneStr
    /\ h_videos' = <<>>
    /\ h_i' = 0
    /\ h_summaries' = <<>>
    /\ h_response' = [kind |-> "none"]
    /\ h_log' = <<>>
    /\ UNCHANGED <<openai_client, fs, pvars, ncalls, fvars, config_kind, provider, g_clients, nlisted>>

Configs == {"ok", "missing_keys", "unsupported_provider"}

\* a server process before its first tool call
InitServer ==
    /\ PipelineInit
    /\ ncalls = 0
    /\ config_kind \in Configs
    /\ provider = "up"
    /\ HandlerIdle
    /\ NoFunction

NextServer ==
    \/ CallTool
    \/ InitializeClients
    \/ Validate
    \/ Resolve
    \/ List
    \/ LoopStep
    \/ PipelineStep
    \/ TranscriptReturned
    \/ ChannelMetadata
    \/ Respond

SpecServer == InitServer /\ [][NextServer]_vars

(* A server process whose summarization provider answers some calls with an
   error (a rate limit, a revoked key, an answer that is no JSON). *)
InitProvider ==
    /\ PipelineInit
    /\ ncalls = 0
    /\ config_kind = "ok"
    /\ provider = "errors"
    /\ HandlerIdle
    /\ NoFunction

SpecProvider == InitProvider /\ [][NextServer]_vars

-----------------------------------------------------------------------------
(* Properties of the tool handlers, checked under SpecServer *)

HasEvent(ev, i) == \E k \in 1..Len(h_log) : h_log[k] = [ev |-> ev, i |-> i]
IsVideoEvent(e) == e.i > 0
\* the events of h_log that belong to a video of the loop
VideoEvents == SelectSeq(h_log, IsVideoEvent)
\* the videos of the listing whose transcript came back absent
Absent == {i \in 1..Len(h_videos) : HasEvent("absent", i)}
Ids(items) == [k \in 1..Len(items) |-> items[k].video_id]

\* the ids of videos[i..], those in skip left out
RECURSIVE KeptFrom(_, _, _)
KeptFrom(videos, skip, i) ==
    IF i > Len(videos) THEN <<>>
    ELSE (IF i \in skip THEN <<>> ELSE <<videos[i].video_id>>)
         \o KeptFrom(videos, skip, i + 1)

\* a is b with some elements left out, the order kept
RECURSIVE IsSubsequence(_, _)
IsSubsequence(a, b) ==
    IF a = <<>> THEN TRUE
    ELSE IF b = <<>> THEN FALSE
    ELSE IF Head(a) = Head(b) THEN IsSubsequence(Tail(a), Tail(b))
    ELSE IsSubsequence(a, Tail(b))

SummaryHandlerDone == hpc = "done" /\ h_tool \in SummaryTools
\* the handler ended in the except clause on what summarize_video raised
SummarizerFailed ==
    /\ h_response.kind = "error"
    /\ h_log # <<>>
    /\ h_log[Len(h_log)].ev = "summarize_video"

(* C5: a video without a transcript is skipped, not fatal.  When a summary
   handler ends after a listing of N videos of which K came back absent,
   and no summarization failed, the response is a success whose summaries
   are those of the N-|K| other videos, videos_processed is N-|K|, and
   get_transcript was called for every one of the N videos. *)
C5_AbsentSkipped ==
    (SummaryHandlerDone /\ h_videos # <<>> /\ ~SummarizerFailed) =>
        /\ h_response.kind = "success"
        /\ Ids(h_response.summaries) = KeptFrom(h_videos, Absent, 1)
        /\ h_response.videos_processed = Len(h_videos) - Cardinality(Absent)
        /\ \A i \in 1..Len(h_videos) : HasEvent("get_transcript", i)

\* C5's case: the first of two videos had no transcript, the second has a summary
C5_Witness ==
    /\ SummaryHandlerDone
    /\ Len(h_videos) = 2
    /\ Absent = {1}
    /\ h_response.kind = "success"
    /\ h_response.videos_processed = 1
    /\ Ids(h_response.summaries) = <<h_videos[2].video_id>>

(* C6: no exception crosses the tool-call boundary: whatever a collaborator
   does, the tool ends with a success or an error response. *)
C6_NoEscape ==
    hpc = "done" => h_response.kind \in {"success", "error"}

\* the calls that leave the process: data API, pipeline, summarizer
ExternalCalls ==
    {"get_channel_id_from_username", "get_channel_metadata", "get_latest_videos",
     "get_videos_by_timerange", "get_transcript", "summarize_video"}

\* a count outside its range or a date that does not parse (or is empty)
Malformed ==
    /\ h_tool \in SummaryTools
    /\ ~InRange(h_tool, h_args.count) \/ h_args.dates \in {"bad", "empty"}

(* C7: malformed input is rejected before any external call: a summary
   handler given a count outside its range or an unparsable date ends with
   an error response and has called no collaborator. *)
C7_RejectedFirst ==
    (hpc = "done" /\ Malformed) =>
        /\ h_response.kind = "error"
        /\ \A k \in 1..Len(h_log) : h_log[k].ev \notin ExternalCalls

(* C8: in every success response of a summary handler videos_processed is
   the number of summaries, and summaries <= videos listed <= the count
   asked for. *)
C8_Counts ==
    (SummaryHandlerDone /\ h_response.kind = "success") =>
        /\ h_response.videos_processed = Len(h_response.summaries)
        /\ Len(h_response.summaries) <= Len(h_videos)
        /\ Len(h_videos) <= h_args.count

\* C8's case: fewer summaries than videos listed, the listing at the count asked for
C8_Witness ==
    /\ SummaryHandlerDone
    /\ h_response.kind = "success"
    /\ h_args.count = 2
    /\ Len(h_videos) = 2
    /\ h_response.videos_processed = 1
    /\ Absent = {2}

(* C9: videos are processed one at a time in the order of the listing.  The
   video events of a handler are get_transcript 1, the end of video 1
   (absent, or summarize_video), get_transcript 2, ...; the extractor runs
   only between a get_transcript and the end of the same video; and the
   summaries, in the loop and in the response, are a subsequence of the
   listing in its order. *)
C9_Sequential ==
    h_tool \in SummaryTools =>
        /\ \A k \in 1..Len(VideoEvents) :
              /\ VideoEvents[k].i = (k + 1) \div 2
              /\ k % 2 = 1 => VideoEvents[k].ev = "get_transcript"
              /\ k % 2 = 0 => VideoEvents[k].ev \in {"absent", "summarize_video"}
        /\ ppc # "idle" =>
              /\ hpc = "transcript"
              /\ Len(VideoEvents) % 2 = 1
              /\ p_vid = h_videos[h_i].video_id
        /\ IsSubsequence(Ids(h_summaries), Ids(h_videos))
        /\ (hpc = "done" /\ h_response.kind = "success") =>
              Ids(h_response.summaries) = Ids(h_summaries)

\* C9's case: two videos listed, both summarized
C9_Witness ==
    /\ SummaryHandlerDone
    /\ h_response.kind = "success"
    /\ Len(h_videos) = 2
    /\ Ids(h_response.summaries) = Ids(h_videos)
    /\ Len(VideoEvents) = 4

-----------------------------------------------------------------------------
(* Caption track selection on its own: every enumeration result with up to
   MaxTracks languages per set goes through the selection of
   _get_youtube_subtitles. *)

InitSelect ==
    /\ openai_client = TRUE
    /\ PipelineIdle
    /\ ncalls = 0
    /\ NoHandler
    /\ fn_in \in [video_id : {<<"v", "1">>}, info : Infos]
    /\ fn_out = Unset
    /\ threads = <<>>

ApplySelectTrack ==
    /\ fn_out = Unset
    /\ fn_out' = SelectTrack(fn_in.video_id, fn_in.info)
    /\ UNCHANGED <<openai_client, fs, pvars, ncalls, hvars, fn_in, threads>>

NextSelect == ApplySelectTrack

SpecSelect == InitSelect /\ [][NextSelect]_vars

\* "en" if the set has it, else the first language of the set
PreferredOf(tracks) == IF HasKey(tracks, EN) THEN EN ELSE tracks[1].lang

(* C10: caption track selection.  No track is selected exactly when both
   sets are empty.  When the manual set is non-empty the selected language
   is one of its languages and the track counts as manual, even if "en"
   exists only among the automatic tracks; an automatic track is selected
   only when the manual set is empty.  Within the chosen set the language
   is "en" if present, otherwise the first in enumeration order. *)
C10_TrackSelection ==
    fn_out # Unset =>
        LET manual == fn_in.info.subtitles
            automatic == fn_in.info.automatic_captions
        IN /\ fn_out.kind = "none" <=> (manual = <<>> /\ automatic = <<>>)
           /\ fn_out.kind = "ok" =>
                IF manual # <<>>
                THEN /\ fn_out.manual
                     /\ fn_out.language = PreferredOf(manual)
                     /\ \E i \in 1..Len(Lookup(manual, fn_out.language)) :
                           Lookup(manual, fn_out.language)[i] = fn_out.ext
                ELSE /\ ~fn_out.manual
                     /\ fn_out.language = PreferredOf(automatic)
                     /\ \E i \in 1..Len(Lookup(automatic, fn_out.language)) :
                           Lookup(automatic, fn_out.language)[i] = fn_out.ext

\* C10's case: "en" only among the automatic tracks, the first manual track selected
C10_Witness ==
    /\ fn_out # Unset
    /\ fn_out.kind = "ok"
    /\ Len(fn_in.info.subtitles) = 2
    /\ ~HasKey(fn_in.info.subtitles, EN)
    /\ HasKey(fn_in.info.automatic_captions, EN)
    /\ fn_out.manual
    /\ fn_out.language = fn_in.info.subtitles[1].lang

-----------------------------------------------------------------------------
(* Further properties of get_transcript, checked under Spec *)

Offers(sub_formats, ext) == \E i \in 1..Len(sub_formats) : sub_formats[i] = ext

\* the format lists of the track selected, over the enumerations that select it
SelectedFormats ==
    {Lookup(available_subs(info), p_sel.language) :
        info \in {i \in PlatformInfos : SelectTrack(p_vid, i) = p_sel}}

\* one step of the caption download or of the parse
C11_Step ==
    ppc \in {"subs_download", "subs_parse"} =>
        \A sub_formats \in SelectedFormats :
            IF Offers(sub_formats, JSON3)
            THEN /\ p_sel.ext = JSON3
                 /\ (ppc = "subs_parse" /\ IsTranscript(p_caption')) =>
                       /\ fs[p_sel.path].doc.kind = "json"
                       /\ p_caption'.text = JoinSpace(AllTexts(fs[p_sel.path].doc.events))
            ELSE p_sel.ext = sub_formats[1]

(* C11: format precedence.  When the track selected offers json3, in any
   position of its format list, json3 is the format downloaded and parsed,
   and a text returned by the caption step is the text of the JSON events;
   the first format listed is used only when json3 is not offered. *)
C11_FormatPrecedence == [][C11_Step]_vars

\* C11's case: json3 listed second, the transcript built from the JSON events
C11_Witness ==
    /\ ppc = "returned"
    /\ IsTranscript(p_result)
    /\ p_sel # NoSel
    /\ p_sel.ext = JSON3
    /\ SelectedFormats = {<<VTT, JSON3>>}
    /\ p_result.text = HI \o <<" ">> \o OK

\* the two language fields of the metadata, NoneStr when the field is false
DeclaredAudioLanguage ==
    IF p_meta = MetaNone \/ p_meta.snippet \in {NoSnippet, NullSnippet} THEN NoneStr
    ELSE IF ~TruthyField(p_meta.snippet.defaultAudioLanguage) THEN NoneStr
    ELSE p_meta.snippet.defaultAudioLanguage
DeclaredDefaultLanguage ==
    IF p_meta = MetaNone \/ p_meta.snippet \in {NoSnippet, NullSnippet} THEN NoneStr
    ELSE IF ~TruthyField(p_meta.snippet.defaultLanguage) THEN NoneStr
    ELSE p_meta.snippet.defaultLanguage

(* C12: the language of the speech-to-text fallback.  Once the transcription
   call is made, the language sent is the normalized audio language when
   the metadata declares one, else the normalized default language when the
   metadata declares that, else none is sent; a transcript that comes back
   from the call has the speech-to-text source. *)
C12_FallbackLanguage ==
    InTrace("whisper_api") =>
        /\ TranscriptionLanguage(p_lang) =
              IF DeclaredAudioLanguage # NoneStr
              THEN _convert_to_whisper_lang(DeclaredAudioLanguage)
              ELSE IF DeclaredDefaultLanguage # NoneStr
              THEN _convert_to_whisper_lang(DeclaredDefaultLanguage)
              ELSE NoneStr
        /\ (ppc = "returned" /\ IsTranscript(p_result)) =>
              p_result.source = "openai_whisper_api"

\* C12's case: no captions, audio language zh-CN next to a default language
C12_Witness ==
    /\ ppc = "returned"
    /\ p_trace = <<"extract_info", "_get_whisper_transcript", "download_audio",
                   "whisper_api">>
    /\ DeclaredAudioLanguage = ZH_CN
    /\ DeclaredDefaultLanguage = EN
    /\ TranscriptionLanguage(p_lang) = <<"z", "h">>
    /\ IsTranscript(p_result)
    /\ p_result.source = "openai_whisper_api"

\* one step of the size check or of the transcription call
C13_Step ==
    /\ (ppc = "size_guard" /\ fs[p_audio].size > MAX_FILE_SIZE) =>
          /\ p_trace' = Append(p_trace, "ffmpeg")
          /\ \/ /\ ppc' = "whisper_call"
                /\ p_audio' = CompressedPath(p_audio)
                /\ p_audio' \in DOMAIN fs'
             \/ /\ ppc' = "returned"
                /\ p_result' = NoneT
    /\ ppc = "whisper_call" =>
          IF InTrace("ffmpeg")
          THEN p_audio = CompressedPath(AudioPath(p_vid))
          ELSE p_audio = AudioPath(p_vid) /\ fs[p_audio].size <= MAX_FILE_SIZE

(* C13: an audio file over 25 MB is compressed before the transcription
   call.  From the size check on an oversized file the transcoder runs, and
   then either the call is next and its file is the compressed one, or
   get_transcript returns None with no call; the call never opens an
   original file that is over the limit. *)
C13_CompressedFirst == [][C13_Step]_vars

\* C13's case: the transcoder ran, the call got the compressed file
C13_Witness ==
    /\ ppc = "returned"
    /\ IsTranscript(p_result)
    /\ p_trace = <<"extract_info", "_get_whisper_transcript", "download_audio",
                   "ffmpeg", "whisper_api">>
    /\ p_audio = CompressedPath(AudioPath(p_vid))
    /\ AudioPath(p_vid) \notin DOMAIN fs

\* one step of the size check on a file at or under the limit
C14_Step ==
    (ppc = "size_guard" /\ fs[p_audio].size <= MAX_FILE_SIZE) =>
        /\ ppc' = "whisper_call"
        /\ p_audio' = p_audio
        /\ fs' = fs
        /\ p_trace' = p_trace
        /\ p_created' = p_created

(* C14: the size check on a file of at most 25 * 1024 * 1024 bytes, the
   boundary included, passes the same file on to the call: the file is
   untouched, the transcoder is not run, and no file is added to or removed
   from the temp directory. *)
C14_UnderLimit == [][C14_Step]_vars

\* C14's case: a file of exactly the limit is at the call, no transcoder ran
C14_Witness ==
    /\ ppc = "whisper_call"
    /\ p_audio = AudioPath(p_vid)
    /\ fs[p_audio].size = MAX_FILE_SIZE
    /\ ~InTrace("ffmpeg")
    /\ DOMAIN fs = {AudioPath(p_vid)}

\* one step of the size check that ran the transcoder
C15_Step ==
    (ppc = "size_guard" /\ p_trace' = Append(p_trace, "ffmpeg")) =>
        AudioPath(p_vid) \notin DOMAIN fs'

(* C15: once the transcoder has been run on an oversized file, the original
   file is gone when the size check is over, whether the transcoder succeeded
   or failed. *)
C15_OriginalDeleted == [][C15_Step]_vars

-----------------------------------------------------------------------------
(* The language normalizer on its own: _convert_to_whisper_lang applied to
   every key of its table and to every string of up to MaxCodeLen characters
   over a small alphabet that has the separator. *)

MaxCodeLen == 5
CodeChars == {"z", "h", "-"}

RECURSIVE StringsUpTo(_, _)
StringsUpTo(chars, n) ==
    IF n = 0 THEN {<<>>}
    ELSE LET shorter == StringsUpTo(chars, n - 1)
         IN shorter \cup {Append(s, c) : s \in shorter, c \in chars}

LanguageCodes == DOMAIN mapping \cup StringsUpTo(CodeChars, MaxCodeLen)

Returned(value) == [kind |-> "returned", value |-> value]

InitNormalize ==
    /\ openai_client = TRUE
    /\ PipelineIdle
    /\ ncalls = 0
    /\ NoHandler
    /\ fn_in \in [youtube_lang : LanguageCodes]
    /\ fn_out = Unset
    /\ threads = <<>>

ApplyNormalize ==
    /\ fn_out = Unset
    /\ fn_out' = Returned(_convert_to_whisper_lang(fn_in.youtube_lang))
    /\ UNCHANGED <<openai_client, fs, pvars, ncalls, hvars, fn_in, threads>>

NextNormalize == ApplyNormalize

SpecNormalize == InitNormalize /\ [][NextNormalize]_vars

\* p is s up to, and without, the first "-" of s; all of s when s has none
IsPrefixBeforeDash(p, s) ==
    /\ Len(p) <= Len(s)
    /\ p = SubSeq(s, 1, Len(p))
    /\ \A i \in 1..Len(p) : p[i] # "-"
    /\ Len(p) < Len(s) => s[Len(p) + 1] = "-"

\* one application of the normalizer
C16_Step ==
    fn_out = Unset =>
        /\ fn_out' # Unset
        /\ IF fn_in.youtube_lang \in DOMAIN mapping
           THEN fn_out'.value = mapping[fn_in.youtube_lang]
           ELSE IsPrefixBeforeDash(fn_out'.value, fn_in.youtube_lang)
        /\ UNCHANGED <<openai_client, fs, pvars, ncalls, hvars, fn_in, threads>>

(* C16: the normalizer returns a value for every string and changes nothing
   else: the table's value for a code of the table, and for every other code
   the prefix before its first "-" (the code itself when it has no "-"). *)
C16_Normalize == [][C16_Step]_vars

\* C16's case: a code outside the table with two separators was normalized
C16_Witness ==
    /\ fn_out # Unset
    /\ fn_in.youtube_lang = <<"z", "-", "h", "-", "z">>
    /\ fn_out.value = <<"z">>

-----------------------------------------------------------------------------
(* The caption parser on its own: _parse_subtitle_file applied to a path
   that exists or not, with a declared format and a file content. *)

MaxSegs == 2
MaxEvents == 2
MaxLines == 5

SeqsUpTo(S, n) == UNION {[1..k -> S] : k \in 0..n}

\* the "utf8" of a seg: blank, padded, plain
SegTexts == {<<" ">>, <<" ", "o", "k", "\n">>, HI}
JsonDocs == {JsonDoc(events) : events \in SeqsUpTo(SeqsUpTo(SegTexts, MaxSegs), MaxEvents)}

(* valid JSON of a shape on which the parser raises (see ParseJson3).  An
   empty object or an empty string in the place of "events" or of "segs" is
   iterated like an empty list: JsonDoc(<<>>), JsonDoc(<< <<>> >>). *)
ShapeDoc == [kind |-> "json_shape"]

\* "\n".join(lines)
RECURSIVE JoinLines(_)
JoinLines(lines) ==
    IF lines = <<>> THEN <<>>
    ELSE IF Len(lines) = 1 THEN lines[1]
    ELSE lines[1] \o <<"\n">> \o JoinLines(Tail(lines))

\* a timestamp range without its line end
Range(frac) == Clock(frac) \o ARROW \o Clock(frac)

\* text with a timestamp tag in it, as in automatic captions
TaggedText == <<"<">> \o Clock(".") \o <<">">> \o OK

(* the lines of a WebVTT file: the header, a blank line, a timestamp line,
   text, text with a timestamp tag *)
VttLines == {WEBVTT, <<>>, Range("."), HI, TaggedText}
VttDocs == {TextDoc(JoinLines(lines)) : lines \in SeqsUpTo(VttLines, MaxLines)}

NotJson == TextDoc(<<"<", "h", "t", "m", "l", ">">>)

\* a seg text padded with a form feed and an ideographic space; a no-break space
PaddedDoc == JsonDoc(<< << <<"", "h", "i", "U+3000">>, <<" ">> >> >>)

\* a SubRip cue numbered with an Arabic-Indic digit
ArabicCue == TextDoc(<<"U+0663", "\n">> \o HI \o <<"\n">>)

(* Event JSON declared json3 and WebVTT text declared vtt in all their
   variety; next to them every declared format, and one the parser does not
   know, on a missing file, on text, and on JSON of either shape. *)
ParseInputs ==
    [present : {TRUE}, ext : {JSON3}, doc : JsonDocs]
    \cup [present : {TRUE}, ext : {VTT}, doc : VttDocs]
    \cup [present : BOOLEAN, ext : {JSON3, TTML},
          doc : {JsonDoc(<< <<HI>> >>), PaddedDoc, ShapeDoc, NotJson}]
    \cup [present : BOOLEAN, ext : {JSON3, VTT, SRT, TTML},
          doc : {TextDoc(SrtSample), TextDoc(VttSample), ArabicCue}]

ParsePath == SubtitlePath(<<"v", "1">>, EN, fn_in.ext)
ParseFs == IF fn_in.present THEN WriteFile(EmptyFs, ParsePath, 1, fn_in.doc) ELSE EmptyFs

InitParse ==
    /\ openai_client = TRUE
    /\ PipelineIdle
    /\ ncalls = 0
    /\ NoHandler
    /\ fn_in \in ParseInputs
    /\ fn_out = Unset
    /\ threads = <<>>

ApplyParse ==
    /\ fn_out = Unset
    /\ fn_out' = Returned(_parse_subtitle_file(ParseFs, ParsePath, fn_in.ext))
    /\ UNCHANGED <<openai_client, fs, pvars, ncalls, hvars, fn_in, threads>>

NextParse == ApplyParse

SpecParse == InitParse /\ [][NextParse]_vars

RECURSIVE Flatten(_)
Flatten(seqs) == IF seqs = <<>> THEN <<>> ELSE Head(seqs) \o Flatten(Tail(seqs))

NonBlank(t) == \E i \in 1..Len(t) : ~IsSpace(t[i])

\* the segment texts that are not blank, in document order, each trimmed
KeptTexts(events) ==
    LET kept == SelectSeq(Flatten(events), NonBlank)
    IN [i \in 1..Len(kept) |-> Strip(kept[i])]

\* the parser was applied to an existing file of event JSON declared json3
ParsedJson3 ==
    fn_out # Unset /\ fn_in.present /\ fn_in.ext = JSON3 /\ fn_in.doc.kind = "json"

(* C17: on the JSON event format the parser returns the segment texts that
   are non-empty after trimming, trimmed, of all events in document order,
   joined by single spaces; empty segments and events without segments
   contribute nothing. *)
C17_Json3Text ==
    ParsedJson3 => fn_out.value = JoinSpace(KeptTexts(fn_in.doc.events))

\* C17's case: padded, blank and plain segments over two events
C17_Witness ==
    /\ ParsedJson3
    /\ fn_in.doc.events = << << <<" ", "o", "k", "\n">>, <<" ">> >>, <<HI>> >>
    /\ fn_out.value = OK \o <<" ">> \o HI

\* the parser was applied to an existing text file declared vtt
ParsedVtt ==
    fn_out # Unset /\ fn_in.present /\ fn_in.ext = VTT /\ fn_in.doc.kind = "text"

\* s has a clock time hh:mm:ss.mmm somewhere
HasClock(s) == \E i \in 1..Len(s) : IsClock(Drop(s, i - 1), ".")

(* C18: on WebVTT the parser removes the header block and every timestamp
   line, so that no timestamp is left anywhere in the text it returns. *)
C18_NoTimestamp == ParsedVtt => ~HasClock(fn_out.value)

(* C19: the caption parser never lets an exception out.  Whatever the file
   (missing, text that is no JSON, JSON of another shape, event JSON,
   caption text) and whatever the declared format, it returns a text or
   None; it returns None for a missing file, for a format it does not know,
   and for json3 on anything that is not event JSON. *)
C19_NeverThrows ==
    (fn_out # Unset /\ fn_in \in ParseInputs) =>
        /\ fn_out.value # Raised
        /\ ~fn_in.present => fn_out.value = NoneStr
        /\ fn_in.ext \notin {JSON3, VTT, SRT} => fn_out.value = NoneStr
        /\ (fn_in.ext = JSON3 /\ fn_in.doc.kind # "json") => fn_out.value = NoneStr
        /\ (fn_in.present /\ fn_in.ext \in {VTT, SRT}) => fn_out.value # NoneStr

\* C19's case: json3 declared on JSON that is not an object with events
C19_Witness ==
    /\ fn_out # Unset
    /\ fn_in = [present |-> TRUE, ext |-> JSON3, doc |-> ShapeDoc]
    /\ fn_out.value = NoneStr

-----------------------------------------------------------------------------
(* The channel id of the three tools, checked under SpecServer *)

\* the name has the form of a channel id: "UC" and 24 characters in all
VerbatimId(username) ==
    Len(username) = 24 /\ username[1] = "U" /\ username[2] = "C"

LookupCalled == HasEvent("get_channel_id_from_username", 0)
ListingCalled ==
    HasEvent("get_latest_videos", 0) \/ HasEvent("get_videos_by_timerange", 0)
LookupRaised ==
    h_response \in {ErrorResponse(h_server, "lookup"), Escaped("lookup")}

(* C20: every tool of both servers takes a name that starts with "UC" and
   has exactly 24 characters as the channel id, without a lookup; any other
   name goes through get_channel_id_from_username before anything is done
   with a channel id; and when the lookup finds nothing the response is the
   'Channel not found' error and no video listing was called. *)
C20_ChannelId ==
    hpc # "idle" =>
        /\ VerbatimId(h_args.username) =>
              ~LookupCalled /\ h_channel \in {NoneStr, h_args.username}
        /\ (~VerbatimId(h_args.username)
            /\ (h_channel # NoneStr \/ ListingCalled
                \/ HasEvent("get_channel_metadata", 0))) => LookupCalled
        /\ ListingCalled => h_channel # NoneStr
        /\ (hpc = "done" /\ LookupCalled /\ h_channel = NoneStr /\ ~LookupRaised) =>
              /\ h_response = ErrorResponse(h_server, "Channel not found")
              /\ ~ListingCalled

\* C20's case: a time range call of server.py listed the videos of a channel id
C20_Witness ==
    /\ hpc = "done"
    /\ h_server = "server"
    /\ h_tool = "get_videos_by_timerange"
    /\ h_args.username = UCID
    /\ h_channel = UCID
    /\ ListingCalled
    /\ ~LookupCalled
    /\ h_response.kind = "success"

-----------------------------------------------------------------------------
(* Concurrent invocations of get_transcript on one TranscriptExtractor: the
   invocations share the temp directory and nothing else.  Every step below
   is one file operation, or one external call with the file operations
   that belong to it, of the invocation t. *)

\* invocations running at the same time
MaxThreads == 2

(* The video ids of the concurrent invocations.  get_transcript takes any
   string as video_id; the last id is the second with "_compressed" added. *)
V2_COMPRESSED ==
    <<"v", "2">> \o <<"_", "c", "o", "m", "p", "r", "e", "s", "s", "e", "d">>
ConcurrentIds == VideoIds \cup {V2_COMPRESSED}

(* What the caption download of a video gives: the video has no track
   ("none"), yt_dlp leaves the file where the parser reads it ("parsed"), or
   under the name it derives from outtmpl ("misnamed"). *)
CaptionKinds == {"none", "parsed", "misnamed"}

\* the audio of a video: its content names the video, its size is the video's
AudioOf(video_id) == [kind |-> "audio", video_id |-> video_id]
AudioSizeOf(video_id) ==
    IF video_id = <<"v", "1">> THEN MAX_FILE_SIZE ELSE MAX_FILE_SIZE + 1

\* what the transcription of a file says, and the captions of a video
Speech(doc) == [text |-> HI \o <<" ">> \o doc.video_id, language |-> ENGLISH]
CaptionsOf(video_id) == JsonDoc(<< <<OK, video_id>> >>)

\* an invocation that has not run yet; captions: the caption kind of its video
Invocation(video_id, captions) ==
    [video_id |-> video_id,
     captions |-> captions,
     pc |-> IF captions # "none" THEN "subs_download" ELSE "download_audio",
     subtitle_path |-> SubtitlePath(video_id, EN, JSON3),
     audio_path |-> NonePath,
     audio_file |-> NoneStr,
     linked |-> FALSE,
     held |-> NoneStr,
     result |-> Pending,
     touched |-> {}]

\* from the invocations thr, t goes on with the fields of next, having touched paths
GoesFrom(thr, t, next, paths) ==
    /\ threads' = [thr EXCEPT
                     ![t] = [f \in DOMAIN thr[t] |->
                               IF f \in DOMAIN next THEN next[f]
                               ELSE IF f = "touched" THEN thr[t].touched \cup paths
                               ELSE thr[t][f]]]
    /\ UNCHANGED <<openai_client, pvars, ncalls, hvars, fn_in, fn_out>>

\* the invocation t goes on with the fields of next, having touched paths
Goes(t, next, paths) == GoesFrom(threads, t, next, paths)

(* The invocations that hold path open (between line 246 and line 257) as
   the file the name still stands for. *)
HoldsOpen(thr, u, path) ==
    thr[u].pc = "whisper_call" /\ thr[u].audio_path = path /\ thr[u].linked

(* A download or ffmpeg has written doc to path.  Written in place, an open
   handle on the file reads the new content; written by replacement (a new
   file under the name), the handle keeps the old file, which has no name
   any more. *)
Written(thr, path, doc, in_place) ==
    [u \in DOMAIN thr |->
        IF HoldsOpen(thr, u, path)
        THEN IF in_place THEN [thr[u] EXCEPT !.audio_file = doc]
             ELSE [thr[u] EXCEPT !.linked = FALSE]
        ELSE thr[u]]

\* path is deleted: an open handle keeps the file, which has no name any more
Deleted(thr, path) ==
    [u \in DOMAIN thr |->
        IF HoldsOpen(thr, u, path) THEN [thr[u] EXCEPT !.linked = FALSE] ELSE thr[u]]

(* Lines 178-179: the caption download writes the caption file, where the
   parser reads it or under yt_dlp's own name. *)
CSubsDownload(t) ==
    /\ threads[t].pc = "subs_download"
    /\ LET path == IF threads[t].captions = "parsed" THEN threads[t].subtitle_path
                   ELSE ToolSubtitlePath(threads[t].video_id, EN, JSON3)
       IN /\ fs' = WriteFile(fs, path, 0, CaptionsOf(threads[t].video_id))
          /\ Goes(t, [pc |-> "subs_parse"], {path})

\* line 182: the parser reads the caption file
CSubsParse(t) ==
    /\ threads[t].pc = "subs_parse"
    /\ Goes(t, [pc |-> "subs_exists",
                held |-> _parse_subtitle_file(fs, threads[t].subtitle_path, JSON3)],
            {threads[t].subtitle_path})
    /\ UNCHANGED fs

\* lines 188-202: a text is returned; without one the audio is transcribed
SubsReturns(t) ==
    IF TruthyStr(threads[t].held)
    THEN Goes(t, [pc |-> "returned",
                  result |-> VideoTranscript(threads[t].video_id, EN,
                                             "youtube_subtitles", threads[t].held)],
              {threads[t].subtitle_path})
    ELSE Goes(t, [pc |-> "download_audio"], {threads[t].subtitle_path})

\* line 185: exists() on the caption file; a missing file is not deleted
CSubsExists(t) ==
    /\ threads[t].pc = "subs_exists"
    /\ IF threads[t].subtitle_path \in DOMAIN fs
       THEN Goes(t, [pc |-> "subs_unlink"], {threads[t].subtitle_path})
       ELSE SubsReturns(t)
    /\ UNCHANGED fs

(* Line 186: unlink() on the caption file.  On a file that has gone since
   line 185 it raises FileNotFoundError: the except clause of lines 204-206
   returns None, the text is lost and the audio is transcribed. *)
CSubsUnlink(t) ==
    /\ threads[t].pc = "subs_unlink"
    /\ IF threads[t].subtitle_path \in DOMAIN fs
       THEN /\ fs' = Unlink(fs, threads[t].subtitle_path)
            /\ SubsReturns(t)
       ELSE /\ Goes(t, [pc |-> "download_audio", held |-> NoneStr],
                    {threads[t].subtitle_path})
            /\ UNCHANGED fs

\* lines 350-367: the audio download writes <video_id>.mp3
CDownloadAudio(t) ==
    /\ threads[t].pc = "download_audio"
    /\ LET audio_path == AudioPath(threads[t].video_id)
       IN /\ fs' = WriteFile(fs, audio_path, AudioSizeOf(threads[t].video_id),
                             AudioOf(threads[t].video_id))
          /\ \E in_place \in BOOLEAN :
                GoesFrom(Written(threads, audio_path, AudioOf(threads[t].video_id),
                                 in_place),
                         t, [pc |-> "audio_downloaded", audio_path |-> audio_path],
                         {audio_path})

\* lines 369-373 and 230-231: exists() on the mp3; None without the file
CAudioDownloaded(t) ==
    /\ threads[t].pc = "audio_downloaded"
    /\ IF threads[t].audio_path \in DOMAIN fs
       THEN Goes(t, [pc |-> "size_guard"], {threads[t].audio_path})
       ELSE Goes(t, [pc |-> "returned", result |-> NoneT], {threads[t].audio_path})
    /\ UNCHANGED fs

(* Lines 235-238: stat() raises when the file is gone (the except clause of
   lines 290-292 returns None); an oversized file is to be compressed. *)
CSizeGuard(t) ==
    /\ threads[t].pc = "size_guard"
    /\ LET audio_path == threads[t].audio_path
       IN IF audio_path \notin DOMAIN fs
          THEN Goes(t, [pc |-> "returned", result |-> NoneT], {audio_path})
          ELSE IF Oversized(fs[audio_path].size)
          THEN Goes(t, [pc |-> "compress"], {audio_path})
          ELSE Goes(t, [pc |-> "audio_open"], {audio_path})
    /\ UNCHANGED fs

(* Lines 305-323: ffmpeg reads the mp3 and writes the compressed file; it
   fails without its input, and _compress_audio returns None. *)
CCompress(t) ==
    /\ threads[t].pc = "compress"
    /\ LET audio_path == threads[t].audio_path
       IN IF audio_path \notin DOMAIN fs
          THEN /\ Goes(t, [pc |-> "returned", result |-> NoneT], {audio_path})
               /\ UNCHANGED fs
          ELSE /\ fs' = WriteFile(fs, CompressedPath(audio_path), 512,
                                  fs[audio_path].doc)
               /\ \E in_place \in BOOLEAN :
                     GoesFrom(Written(threads, CompressedPath(audio_path),
                                      fs[audio_path].doc, in_place),
                              t, [pc |-> "original_exists"],
                              {audio_path, CompressedPath(audio_path)})

\* line 326: exists() on the original; a missing original is not deleted
COriginalExists(t) ==
    /\ threads[t].pc = "original_exists"
    /\ IF threads[t].audio_path \in DOMAIN fs
       THEN Goes(t, [pc |-> "original_unlink"], {threads[t].audio_path})
       ELSE Goes(t, [pc |-> "compressed_stat",
                     audio_path |-> CompressedPath(threads[t].audio_path)],
                 {threads[t].audio_path})
    /\ UNCHANGED fs

(* Line 327: unlink() on the original.  On a file that has gone since line
   326 it raises FileNotFoundError and _compress_audio returns None (lines
   334-336). *)
COriginalUnlink(t) ==
    /\ threads[t].pc = "original_unlink"
    /\ LET audio_path == threads[t].audio_path
       IN IF audio_path \in DOMAIN fs
          THEN /\ fs' = Unlink(fs, audio_path)
               /\ GoesFrom(Deleted(threads, audio_path), t,
                           [pc |-> "compressed_stat",
                            audio_path |-> CompressedPath(audio_path)], {audio_path})
          ELSE /\ Goes(t, [pc |-> "returned", result |-> NoneT], {audio_path})
               /\ UNCHANGED fs

\* line 242: stat() on the compressed file raises when the file is gone
CCompressedStat(t) ==
    /\ threads[t].pc = "compressed_stat"
    /\ IF threads[t].audio_path \in DOMAIN fs
       THEN Goes(t, [pc |-> "audio_open"], {threads[t].audio_path})
       ELSE Goes(t, [pc |-> "returned", result |-> NoneT], {threads[t].audio_path})
    /\ UNCHANGED fs

\* line 246: open() raises when the file is gone; else the file is open
CAudioOpen(t) ==
    /\ threads[t].pc = "audio_open"
    /\ LET audio_path == threads[t].audio_path
       IN IF audio_path \notin DOMAIN fs
          THEN Goes(t, [pc |-> "returned", result |-> NoneT], {audio_path})
          ELSE Goes(t, [pc |-> "whisper_call", audio_file |-> fs[audio_path].doc,
                        linked |-> TRUE],
                    {audio_path})
    /\ UNCHANGED fs

(* Lines 247-257: the open file is sent, the result held and the file
   closed.  The path is not used again: what is sent is what the handle
   reads, whatever has become of the name since line 246. *)
CWhisperCall(t) ==
    /\ threads[t].pc = "whisper_call"
    /\ Goes(t, [pc |-> "audio_exists", held |-> Speech(threads[t].audio_file),
                audio_file |-> NoneStr, linked |-> FALSE], {})
    /\ UNCHANGED fs

\* lines 265-288: the transcript of the held result is returned
WhisperReturnsFrom(thr, t) ==
    GoesFrom(thr, t, [pc |-> "returned",
                      result |-> WhisperTranscript(threads[t].video_id, NoneStr,
                                                   threads[t].held)],
             {threads[t].audio_path})

WhisperReturns(t) == WhisperReturnsFrom(threads, t)

\* line 260: exists() on the audio file; a missing file is not deleted
CAudioExists(t) ==
    /\ threads[t].pc = "audio_exists"
    /\ IF threads[t].audio_path \in DOMAIN fs
       THEN Goes(t, [pc |-> "audio_unlink"], {threads[t].audio_path})
       ELSE WhisperReturns(t)
    /\ UNCHANGED fs

(* Line 261: unlink() on the audio file.  On a file that has gone since line
   260 it raises FileNotFoundError: the except clause of lines 290-292
   returns None and the held result is lost. *)
CAudioUnlink(t) ==
    /\ threads[t].pc = "audio_unlink"
    /\ IF threads[t].audio_path \in DOMAIN fs
       THEN /\ fs' = Unlink(fs, threads[t].audio_path)
            /\ WhisperReturnsFrom(Deleted(threads, threads[t].audio_path), t)
       ELSE /\ Goes(t, [pc |-> "returned", result |-> NoneT], {threads[t].audio_path})
            /\ UNCHANGED fs

InitConcurrent ==
    /\ openai_client = TRUE
    /\ PipelineIdle
    /\ ncalls = 0
    /\ NoHandler
    /\ fn_in = [absent |-> TRUE]
    /\ fn_out = Unset
    /\ \E captions \in [ConcurrentIds -> CaptionKinds] :
          threads \in [1..MaxThreads ->
                         {Invocation(v, captions[v]) : v \in ConcurrentIds}]

NextConcurrent ==
    \/ \E t \in 1..MaxThreads : CSubsDownload(t)
    \/ \E t \in 1..MaxThreads : CSubsParse(t)
    \/ \E t \in 1..MaxThreads : CSubsExists(t)
    \/ \E t \in 1..MaxThreads : CSubsUnlink(t)
    \/ \E t \in 1..MaxThreads : CDownloadAudio(t)
    \/ \E t \in 1..MaxThreads : CAudioDownloaded(t)
    \/ \E t \in 1..MaxThreads : CSizeGuard(t)
    \/ \E t \in 1..MaxThreads : CCompress(t)
    \/ \E t \in 1..MaxThreads : COriginalExists(t)
    \/ \E t \in 1..MaxThreads : COriginalUnlink(t)
    \/ \E t \in 1..MaxThreads : CCompressedStat(t)
    \/ \E t \in 1..MaxThreads : CAudioOpen(t)
    \/ \E t \in 1..MaxThreads : CWhisperCall(t)
    \/ \E t \in 1..MaxThreads : CAudioExists(t)
    \/ \E t \in 1..MaxThreads : CAudioUnlink(t)

SpecConcurrent == InitConcurrent /\ [][NextConcurrent]_vars

(* The names in the temp directory that come from one video id: the file
   yt_dlp downloads under outtmpl, the mp3, the compressed mp3, and the
   caption file under the name the code reads and under the name yt_dlp
   derives from outtmpl, for every language and format. *)
TempPaths(video_id) ==
    {video_id, AudioPath(video_id), CompressedPath(AudioPath(video_id))}
    \cup {SubtitlePath(video_id, l, e) : l \in CaptionLangs, e \in {JSON3, VTT, SRT, TTML}}
    \cup {ToolSubtitlePath(video_id, l, e) : l \in CaptionLangs, e \in {JSON3, VTT, SRT, TTML}}

(* C21: concurrent invocations for different videos never touch the same
   file.  Every path an invocation reads, writes or deletes is one of the
   names derived from its video id, and the names derived from two
   different video ids have nothing in common. *)
C21_DisjointPaths ==
    \A t \in DOMAIN threads, u \in DOMAIN threads :
        threads[t].video_id # threads[u].video_id =>
            /\ threads[t].touched \subseteq TempPaths(threads[t].video_id)
            /\ threads[t].touched \cap threads[u].touched = {}
            /\ TempPaths(threads[t].video_id) \cap TempPaths(threads[u].video_id) = {}

(* C21's case: two invocations for different videos are over, one went
   through the caption file, the other through the audio and its
   compression. *)
C21_Witness ==
    /\ DOMAIN threads # {}
    /\ \A t \in DOMAIN threads : threads[t].pc = "returned"
    /\ \E t \in DOMAIN threads, u \in DOMAIN threads :
         /\ threads[t].video_id # threads[u].video_id
         /\ threads[t].touched = {SubtitlePath(threads[t].video_id, EN, JSON3)}
         /\ CompressedPath(AudioPath(threads[u].video_id)) \in threads[u].touched
         /\ IsTranscript(threads[t].result) /\ IsTranscript(threads[u].result)

\* what an invocation returns when no other invocation runs
AloneResult(invocation) ==
    IF invocation.captions = "parsed"
    THEN VideoTranscript(invocation.video_id, EN, "youtube_subtitles",
                         OK \o <<" ">> \o invocation.video_id)
    ELSE VideoTranscript(invocation.video_id, ENGLISH, "openai_whisper_api",
                         HI \o <<" ">> \o invocation.video_id)

\* another invocation is for the same video
Raced(t) ==
    \E u \in DOMAIN threads : u # t /\ threads[u].video_id = threads[t].video_id

(* C22: two invocations for the same video do not corrupt each other: in
   every interleaving of their steps each returns what it returns when it
   runs alone. *)
C22_SameIdRace ==
    \A t \in DOMAIN threads :
        (Raced(t) /\ threads[t].pc = "returned") =>
            threads[t].result = AloneResult(threads[t])

\* no other invocation is for a video id with a temp name of this one's
Apart(t) ==
    \A u \in DOMAIN threads \ {t} :
        TempPaths(threads[u].video_id) \cap TempPaths(threads[t].video_id) = {}

\* an invocation that shares no temp name returns what it returns alone
Unraced ==
    \A t \in DOMAIN threads :
        (Apart(t) /\ threads[t].pc = "returned") =>
            threads[t].result = AloneResult(threads[t])

-----------------------------------------------------------------------------
(* Concurrent tool invocations of one server process and the thread their
   blocking calls run on.  The process has one event loop; a coroutine step
   needs the loop, and the loop is taken for as long as a blocking call runs
   on it. *)

\* the blocking calls of a tool, for a listing of one video
BlockingCalls(tool) ==
    IF tool = "get_channel_metadata" THEN <<"get_channel_metadata">>
    ELSE <<"get_channel_id_from_username",
           IF tool = "get_latest_videos_summary" THEN "get_latest_videos"
           ELSE "get_videos_by_timerange",
           "get_transcript", "summarize_video">>

(* The thread a handler's blocking call runs on.  server.py awaits
   loop.run_in_executor(None, ...) for every one of them; the tools of
   fastmcp_server.py are plain functions that call their collaborators
   directly, on whatever thread FastMCP calls the tool function from: the
   event loop, or a worker if the library provides one. *)
CallThreads(server) ==
    IF server = "server" THEN {"worker"} ELSE {"loop", "worker"}

\* a tool invocation that has made no call yet
ToolInvocation(server, tool) ==
    [server |-> server, tool |-> tool, pc |-> "ready", returned |-> 0, on |-> "none"]

LoopFree == \A u \in DOMAIN threads : ~(threads[u].pc = "blocked" /\ threads[u].on = "loop")

\* the handler of invocation t makes its next blocking call
BlockingCall(t) ==
    /\ threads[t].pc = "ready"
    /\ LoopFree
    /\ \E on \in CallThreads(threads[t].server) :
         /\ \A u \in DOMAIN threads :
              threads[u].server = "fastmcp" /\ threads[u].on # "none" => on = threads[u].on
         /\ threads' = [threads EXCEPT ![t].pc = "blocked", ![t].on = on]
    /\ UNCHANGED <<openai_client, fs, pvars, ncalls, hvars, fn_in, fn_out>>

\* the call returns; after the last one the handler answers
CallReturns(t) ==
    /\ threads[t].pc = "blocked"
    /\ threads' = [threads EXCEPT
                     ![t].returned = @ + 1,
                     ![t].pc = IF threads[t].returned + 1 = Len(BlockingCalls(threads[t].tool))
                               THEN "done" ELSE "ready"]
    /\ UNCHANGED <<openai_client, fs, pvars, ncalls, hvars, fn_in, fn_out>>

InitLoop ==
    /\ openai_client = TRUE
    /\ PipelineIdle
    /\ ncalls = 0
    /\ NoHandler
    /\ fn_in = [absent |-> TRUE]
    /\ fn_out = Unset
    /\ \E server \in Servers :
         threads \in [1..MaxThreads -> {ToolInvocation(server, tool) : tool \in Tools}]

NextLoop ==
    \/ \E t \in 1..MaxThreads : BlockingCall(t)
    \/ \E t \in 1..MaxThreads : CallReturns(t)

SpecLoop == InitLoop /\ [][NextLoop]_vars

(* C23: a blocking call of one invocation does not stall the others: it
   runs on a worker thread, never on the event loop, so that whenever one
   invocation is blocked every other invocation that is ready can go on. *)
C23_NoStall ==
    \A t \in DOMAIN threads :
        threads[t].pc = "blocked" =>
            /\ threads[t].on = "worker"
            /\ \A u \in DOMAIN threads : threads[u].pc = "ready" => ENABLED BlockingCall(u)

(* ---------------------------------------------------------------------- *)
(* C24: a summarization-provider error while processing one video of a    *)
(* batch is a per-video skip: the video is omitted from summaries and not *)
(* counted in videos_processed, while the other videos are processed and  *)
(* the earlier summaries are returned.                                    *)
(* ---------------------------------------------------------------------- *)

\* the videos of the response whose summarization met a provider error
ProviderErrors(summaries) ==
    {k \in DOMAIN summaries : summaries[k].summary = "fallback"}

(* C24: a successful batch response holds no summary of a video whose
   summarization met a provider error, and counts none. *)
C24_ProviderErrorSkipped ==
    (SummaryHandlerDone /\ h_response.kind = "success") =>
        /\ ProviderErrors(h_response.summaries) = {}
        /\ h_response.videos_processed =
              Cardinality({k \in DOMAIN h_response.summaries :
                              h_response.summaries[k].summary = "generated"})

(* ---------------------------------------------------------------------- *)
(* C25: the file handed to the speech-to-text backend has at most         *)
(* MAX_FILE_SIZE bytes, be it the download or the compressed file.        *)
(* ---------------------------------------------------------------------- *)

(* C25: when the transcription call is about to open the audio file, the
   file's size is at most 25 MB. *)
C25_UploadCeiling ==
    ppc = "whisper_call" =>
        /\ p_audio \in DOMAIN fs
        /\ fs[p_audio].size <= MAX_FILE_SIZE

(* ---------------------------------------------------------------------- *)
(* C26: provenance of a returned transcript.                              *)
(* ---------------------------------------------------------------------- *)

SourceTags == {"youtube_subtitles", "youtube_auto_captions", "openai_whisper_api"}

\* get_transcript returned a transcript, which the caption step produced
CaptionProduced == ppc = "returned" /\ p_result # NoneT /\ p_caption = p_result
\* get_transcript returned a transcript, which the fallback produced
FallbackProduced == ppc = "returned" /\ p_result # NoneT /\ p_caption # p_result

(* C26: a transcript of the caption step carries the selected track's
   language, the manual tag exactly when the track was taken from the manual
   set and the automatic tag exactly when it was taken from the automatic
   set; a transcript of the fallback carries the speech-to-text tag; no
   other source value is returned. *)
C26_Provenance ==
    /\ CaptionProduced =>
          /\ p_result.language = p_sel.language
          /\ p_result.source = "youtube_subtitles" <=> p_sel.origin = "subtitles"
          /\ p_result.source = "youtube_auto_captions"
                <=> p_sel.origin = "automatic_captions"
    /\ FallbackProduced => p_result.source = "openai_whisper_api"
    /\ (ppc = "returned" /\ p_result # NoneT) => p_result.source \in SourceTags

(* an automatic track in a language that is not the hint's is returned with
   the automatic tag *)
C26_Witness ==
    /\ CaptionProduced
    /\ p_sel.origin = "automatic_captions"
    /\ p_result.source = "youtube_auto_captions"
    /\ p_result.language = FR
    /\ TruthyMeta(p_meta)
    /\ _detect_language(p_meta) # FR

(* ---------------------------------------------------------------------- *)
(* C27: the parser on SubRip.                                             *)
(* ---------------------------------------------------------------------- *)

\* a cue-number line: digits only
IsCueNumber(line) == line # <<>> /\ \A i \in 1..Len(line) : IsDigit(line[i])

\* a timestamp range line HH:MM:SS,mmm --> HH:MM:SS,mmm
IsSrtRange(line) == Len(line) = 29 /\ IsRange(line, ",")

\* a line of cue text: not blank, no cue number, no timestamp range
IsCueText(line) == NonBlank(line) /\ ~IsCueNumber(line) /\ ~IsSrtRange(line)

\* the parser was applied to an existing SubRip file declared srt
ParsedSrt ==
    /\ fn_out # Unset /\ fn_in.present /\ fn_in.ext = SRT /\ fn_in.doc.kind = "text"
    /\ LET lines == SplitLines(fn_in.doc.chars)
       IN Len(lines) >= 2 /\ IsCueNumber(lines[1]) /\ IsSrtRange(lines[2])

(* C27: on SubRip the parser removes every cue-number line and every
   timestamp range line and returns the cue text lines, unchanged, joined by
   single spaces. *)
C27_SrtText ==
    ParsedSrt =>
        fn_out.value = JoinSpace(SelectSeq(SplitLines(fn_in.doc.chars), IsCueText))

(* ---------------------------------------------------------------------- *)
(* C28: caption files live and die inside one invocation.                 *)
(* ---------------------------------------------------------------------- *)

\* the caption files of the temp directory
CaptionFiles(fsys) == {q \in DOMAIN fsys : fsys[q].doc.kind # "audio"}

\* the caption step of the running invocation has returned
CaptionStepOver == p_caption # Pending /\ p_caption # Skipped

(* C28: a caption file in the temp directory is the file the parser reads,
   and none is left when the caption step has returned. *)
C28_CaptionFileGone ==
    /\ ppc = "subs_parse" => CaptionFiles(fs) \subseteq {p_sel.path}
    /\ CaptionStepOver => CaptionFiles(fs) = {}

(* ---------------------------------------------------------------------- *)
(* C29: initialize_clients of the FastMCP server, called by concurrent    *)
(* tool invocations (sync tools run on threads).                          *)
(* ---------------------------------------------------------------------- *)

(* The globals the body of a tool reads, in the order of its statements, for
   a listing of one video with a transcript.  get_channel_metadata reads
   youtube_client at line 88; the summary tools read youtube_client for the
   lookup (lines 147, 260; not for a channel id) and for the listing (lines
   153, 266), transcript_extractor at lines 174, 291 and summarizer at lines
   183, 299.  Blocking calls stand between the reads and no lock is held. *)
BodyReads(tool) ==
    IF tool = "get_channel_metadata" THEN {<<"youtube_client">>}
    ELSE {<<"youtube_client", "youtube_client", "transcript_extractor", "summarizer">>,
          <<"youtube_client", "transcript_extractor", "summarizer">>}

(* A tool invocation at its first statement; reads: the reads its body has
   still to make, none: the clients it read as None. *)
FirstCall(tool, reads) == [tool |-> tool, pc |-> "initialize", reads |-> reads, none |-> {}]

\* the first calls of the tools
FirstCalls ==
    UNION {{FirstCall(tool, reads) : reads \in BodyReads(tool)} : tool \in Tools}

\* invocation t takes its next step inside initialize_clients
InitializeStep(t) ==
    /\ threads[t].pc \in InitPcs
    /\ LET step == initialize_clients(threads[t].pc, g_clients)
       IN /\ g_clients' = step.clients
          /\ threads' = [threads EXCEPT ![t].pc = step.pc]
    /\ UNCHANGED <<openai_client, fs, pvars, ncalls, config_kind, provider, hpc, h_server,
                   h_tool, h_args, h_channel, h_videos, h_i, h_summaries, h_response,
                   h_log, nlisted, fn_in, fn_out>>

(* initialize_clients returned: the body of the tool makes its next read of
   a global, at the statement that calls the client.  On None the call
   raises AttributeError and the body is over; after the last read the tool
   answers. *)
ToolBody(t) ==
    /\ threads[t].pc \in {"returned", "body"}
    /\ threads[t].reads # <<>>
    /\ LET c == Head(threads[t].reads)
           rest == Tail(threads[t].reads)
       IN threads' = [threads EXCEPT
                        ![t].pc = IF g_clients[c] /\ rest # <<>> THEN "body" ELSE "done",
                        ![t].reads = rest,
                        ![t].none = IF g_clients[c] THEN threads[t].none
                                    ELSE threads[t].none \cup {c}]
    /\ UNCHANGED <<openai_client, fs, pvars, ncalls, hvars, fn_in, fn_out>>

(* The body returns before its next read: no channel for the name (lines
   149-150, 262-263), no videos (155-156, 273-274), or no transcript for the
   video (178-180, 295-297). *)
BodyReturns(t) ==
    /\ threads[t].pc = "body"
    /\ threads' = [threads EXCEPT ![t].pc = "done"]
    /\ UNCHANGED <<openai_client, fs, pvars, ncalls, hvars, fn_in, fn_out>>

InitInit ==
    /\ PipelineInit
    /\ ncalls = 0
    /\ config_kind \in Configs
    /\ provider = "up"
    /\ HandlerIdle
    /\ fn_in = [absent |-> TRUE]
    /\ fn_out = Unset
    /\ threads \in [1..MaxThreads -> FirstCalls]

NextInit ==
    \/ \E t \in 1..MaxThreads : InitializeStep(t)
    \/ \E t \in 1..MaxThreads : ToolBody(t)
    \/ \E t \in 1..MaxThreads : BodyReturns(t)

SpecInit == InitInit /\ [][NextInit]_vars

(* C29: whenever initialize_clients has returned normally, youtube_client,
   transcript_extractor and summarizer are all set, so no tool body runs
   with a client that is None. *)
C29_ClientsSet ==
    \A t \in DOMAIN threads :
        /\ threads[t].pc = "returned" =>
              /\ g_clients.youtube_client
              /\ g_clients.transcript_extractor
              /\ g_clients.summarizer
        /\ threads[t].none = {}

(* ---------------------------------------------------------------------- *)
(* C30: the fallback without a speech-to-text client.                     *)
(* ---------------------------------------------------------------------- *)

\* the external calls get_transcript made, as a set
Calls(trace) == {trace[i] : i \in 1..Len(trace)}

(* C30: when no OpenAI client is configured, the fallback step returns None
   in one step that leaves the temp directory as it is and calls neither the
   audio download nor the transcoder. *)
C30_NoClientNoWork ==
    [][(ppc = "fallback" /\ ~openai_client) =>
          /\ ppc' = "returned"
          /\ p_result' = NoneT
          /\ fs' = fs
          /\ p_created' = p_created
          /\ Calls(p_trace') \cap {"download_audio", "ffmpeg", "whisper_api"} = {}]_vars

\* the fallback was entered without a client, after the caption step found nothing
C30_Witness ==
    /\ ~openai_client
    /\ ppc = "returned"
    /\ p_caption = NoneT
    /\ p_result = NoneT
    /\ p_trace # <<>>
    /\ p_trace[Len(p_trace)] = "_get_whisper_transcript"

====
